---- MODULE Spec2Model ----
(***************************************************************************)
(* Model of the RAG plugin of Outline: the streaming chat engine           *)
(* (ChatService.streamAnswer driven by the rag.chat.stream route) and the  *)
(* incremental indexing pipeline (DocumentIndexProcessor).                 *)
(*                                                                         *)
(* Scores and thresholds are distances multiplied by 10 (0.4 is 4).        *)
(***************************************************************************)
EXTENDS Integers, Sequences, FiniteSets, TLC

(***************************************************************************)
(* Bounds of the model.                                                    *)
(***************************************************************************)
\* longest result list the similarity provider returns
MaxResults == 2
\* most deltas the chat provider delivers on one stream
MaxDeltas == 2
\* longest history a request carries
MaxHistory == 2
\* longest list of sources the client receives
MaxSources == 7
\* the length of the longest result list of the retrieval taken alone
MaxRetrieved == 4
\* lifecycle events the host emits in one run
MaxEvents == 2
\* most jobs the two queues hold together when rag.documents reads them
MaxJobs == 2

(***************************************************************************)
(* Program constants.                                                      *)
(***************************************************************************)
\* ChatService.ts:100  k || settings.RAG_RETRIEVAL_K || 10
DefaultK == 10
\* ChatService.ts:120  default SCORE_THRESHOLD 0.4, times 10
DefaultScoreThreshold == 4

\* an absent optional value (undefined)
Unset == -1
\* saved setting values that are no number: the blank string of an emptied
\* form field, and a string that is no numeric literal
Blank == -2
NonNumeric == -3
\* the number NaN
NaN == -4
\* streamAnswer called without a teamId
NoTeam == "none"
NoData == "none"
NoRelevantDocuments == "rag.no_relevant_documents"

TeamIds == {"t1"}
\* the teams whose chunks rag_vectors holds: the request's and another one
ChunkTeamIds == TeamIds \cup {"t2"}
CollectionIds == {"c1", "c2"}
\* the scores a provider result can carry: one under the default threshold,
\* one over it
Scores == {1, 5}
\* the contents of a provider delta; "" is a delta without content
DeltaContents == {"", "a", "b"}

\* the settings an Integration row can hold for a team; a record whose
\* fields are all absent is the same as no row ({}).
SettingsSpace ==
    [RAG_OPENAI_API_KEY : BOOLEAN,
     RAG_CHAT_API_KEY : BOOLEAN,
     RAG_RETRIEVAL_K : {Unset, 2},
     RAG_SCORE_THRESHOLD : {Unset, 2}]

EmptySettings ==
    [RAG_OPENAI_API_KEY |-> FALSE,
     RAG_CHAT_API_KEY |-> FALSE,
     RAG_RETRIEVAL_K |-> Unset,
     RAG_SCORE_THRESHOLD |-> Unset]

\* one (document, score) pair returned by the similarity provider; the
\* document carries the text of its chunk (pageContent) and its metadata
\* (collectionId, teamId)
ResultSpace ==
    [collectionId : CollectionIds, score : Scores, teamId : ChunkTeamIds,
     pageContent : {"p1"}]

\* every sequence over S of length at most n
SeqsUpTo(S, n) == UNION {[1..m -> S] : m \in 0..n}

VARIABLES
    \* ---- inputs of one rag.chat.stream request
    teamId,         \* user.teamId handed to streamAnswer, or NoTeam
    kArg,           \* the k of the request body, or Unset
    history,        \* the history of the request body
    question,       \* the question of the request body
    collectionIds,  \* the collectionIds of the request body (a set)
    stored,         \* the team's stored RAG settings
    \* ---- ChatService.streamAnswer (the generator)
    gpc,            \* where the generator is
    settings,       \* const settings
    effectiveK,     \* const effectiveK
    retrieved,      \* let retrievedDocs, as similaritySearchWithScore
                    \* returned it
    retrievedDocs,  \* let retrievedDocs, after the filters
    emitted,        \* the events the generator has yielded
    chatModelBuilt, \* getChatModel returned a ChatOpenAI
    messages,       \* the messages built for chatModel.stream
    provider,       \* the chat provider's stream: none, open, ended, errored, cancelled
    deltas,         \* the provider deltas consumed by the for-await loop
    failure,        \* the step that failed, or "none"
    \* ---- the rag.chat.stream handler
    hpc,            \* init, pull (inside for-await), finished
    written,        \* the data events written to ctx.res
    resEnded,       \* ctx.res.writableEnded
    clientClosed,   \* the request's "close" was seen
    afterClose,     \* provider deltas consumed after the close
    \* ---- the indexing pipeline
    docs,           \* the documents table
    clock,          \* the host's time: one tick per lifecycle event
    events,         \* the lifecycle events waiting in globalEventQueue
    delayed,        \* the delayed jobs of globalEventQueue, each with its jobId
    workers,        \* the perform() invocations in flight
    index,          \* rag_vectors: per documentId, its rows
    last,           \* the perform() that completed in the last step
    lastDone,       \* the perform() that completed last, no document
                    \* having changed since it completed
    scheds,         \* per document, the schedulings its pending job has seen
    lastSched,      \* per document, createdAt of the update scheduled last
    \* ---- the rag.documents handler (job status aggregation)
    queues,         \* per queue partition, the jobs Promise.all answered
    statusPc,       \* the scan the handler is about to run
    indexingDocs,   \* const indexingDocs = new Map()
    targetTeamId,   \* teamId || user.teamId
    documents,      \* the documents table: per document, its team
    indexing,       \* data.indexing of the response
    \* ---- the chunking configuration (rag.settings.set, indexDocument)
    integration,    \* integration.settings: the team's saved chunk settings
    splitter,       \* the options indexDocument handed to the text splitter
    \* ---- rag.delete
    vectors,        \* the rows of rag_vectors, each with its metadata
    lastDelete,     \* the last rag.delete request and the rows it removed
    \* ---- the chat scene of the client (handleSubmit.onmessage)
    awaitingSources, \* a question was submitted, its sources not received
    rawSources,     \* data.data of the sources event received last
    streamSources   \* streamSourcesRef.current

chatVars ==
    <<teamId, kArg, history, question,
      collectionIds, stored, gpc, settings, effectiveK,
      retrieved, retrievedDocs, emitted, chatModelBuilt, messages, provider, deltas, failure,
      hpc, written, resEnded, clientClosed, afterClose>>

indexVars ==
    <<docs, clock, events, delayed, workers, index, last, lastDone, scheds,
      lastSched>>

statusVars ==
    <<queues, statusPc, indexingDocs, targetTeamId, documents, indexing>>

configVars == <<integration, splitter>>
deleteVars == <<vectors, lastDelete>>
clientVars == <<awaitingSources, rawSources, streamSources>>

sideVars == <<configVars, deleteVars, clientVars>>

vars == <<chatVars, indexVars, statusVars, sideVars>>

\* what a step of the chat, of the pipeline, of the aggregation leaves alone
notChat == <<indexVars, statusVars, sideVars>>
notIndex == <<chatVars, statusVars, sideVars>>
notStatus == <<chatVars, indexVars, sideVars>>
notConfig == <<chatVars, indexVars, statusVars, deleteVars, clientVars>>
notDelete == <<chatVars, indexVars, statusVars, configVars, clientVars>>
notClient == <<chatVars, indexVars, statusVars, configVars, deleteVars>>

(***************************************************************************)
(* Events of the stream.                                                   *)
(***************************************************************************)
SourcesEvent(sources) == [type |-> "sources", data |-> sources]
ChunkEvent(c) == [type |-> "chunk", data |-> c]
DoneEvent == [type |-> "done", data |-> NoData]
ErrorEvent(msg) == [type |-> "error", data |-> msg]

(***************************************************************************)
(* ChatService.getTeamSettings / VectorStoreService.getTeamSettings:       *)
(* {} without a team, {} when the lookup throws, else the stored settings. *)
(***************************************************************************)
GetTeamSettings(t, lookupOk) ==
    IF t = NoTeam THEN EmptySettings
    ELSE IF ~lookupOk THEN EmptySettings
    ELSE stored

\* the tenant's default taken before the request's k
EffectiveKTenantFirst(k, s) ==
    IF s.RAG_RETRIEVAL_K # Unset /\ s.RAG_RETRIEVAL_K # 0
    THEN s.RAG_RETRIEVAL_K
    ELSE IF k # Unset /\ k # 0 THEN k
    ELSE DefaultK

\* k || settings.RAG_RETRIEVAL_K || 10
EffectiveK(k, s) ==
    IF k # Unset /\ k # 0 THEN k
    ELSE IF s.RAG_RETRIEVAL_K # Unset /\ s.RAG_RETRIEVAL_K # 0
         THEN s.RAG_RETRIEVAL_K
         ELSE DefaultK

\* Number(v) of a saved value: the blank string converts to 0, a string
\* that is no numeric literal to NaN, a number to itself
ToNumber(v) ==
    IF v = Blank THEN 0
    ELSE IF v = NonNumeric THEN NaN
    ELSE v

\* a < b of two numbers: false when either is NaN
LessThan(a, b) == a # NaN /\ b # NaN /\ a < b

\* settings.RAG_SCORE_THRESHOLD !== undefined ? Number(...) : 0.4
ScoreThreshold(s) ==
    IF s.RAG_SCORE_THRESHOLD # Unset THEN ToNumber(s.RAG_SCORE_THRESHOLD)
    ELSE DefaultScoreThreshold

\* settings.RAG_CHAT_API_KEY || settings.RAG_OPENAI_API_KEY
ChatApiKey(s) == s.RAG_CHAT_API_KEY \/ s.RAG_OPENAI_API_KEY

\* the score filter with <= in the place of <
FilterScoreInclusive(results, threshold) ==
    SelectSeq(results, LAMBDA r : r.score <= threshold)

\* retrievedDocs.filter(([, score]) => score < SCORE_THRESHOLD)
FilterScore(results, threshold) ==
    SelectSeq(results, LAMBDA r : LessThan(r.score, threshold))

\* streamAnswer without the safeguard
FilterCollectionOff(results, cids) == results

\* the safeguard: keep the results whose collection is in collectionIds
FilterCollection(results, cids) ==
    IF cids # {}
    THEN SelectSeq(results, LAMBDA r : r.collectionId \in cids)
    ELSE results

(***************************************************************************)
(* The messages streamAnswer builds for the chat model.                    *)
(***************************************************************************)
\* one entry of the request's history: role is "user" or "assistant"
HistoryMessage(role, content) == [role |-> role, content |-> content]

\* new SystemMessage(c), new HumanMessage(c), new AIMessage(c)
SystemMessage(c) == [type |-> "system", content |-> c]
HumanMessage(c) == [type |-> "human", content |-> c]
AIMessage(c) == [type |-> "ai", content |-> c]

\* the instruction text of the system message, up to its context heading
Instructions == "instructions:"
\* the separator the chunk texts are joined with
ContextSeparator == "---"

\* Array.prototype.join
RECURSIVE Join(_, _)
Join(ss, sep) ==
    IF ss = <<>> THEN ""
    ELSE IF Len(ss) = 1 THEN ss[1]
    ELSE ss[1] \o sep \o Join(Tail(ss), sep)

\* retrievedDocs.map(([doc]) => doc.pageContent).join(...)
Context(kept) ==
    Join([i \in 1..Len(kept) |-> kept[i].pageContent], ContextSeparator)

\* history.map(msg => msg.role === "user" ? HumanMessage : AIMessage)
HistoryMessages(hist) ==
    [i \in 1..Len(hist) |->
        IF hist[i].role = "user"
        THEN HumanMessage(hist[i].content)
        ELSE AIMessage(hist[i].content)]

\* the messages with the question ahead of the history
BuildMessagesQuestionFirst(kept, hist, q) ==
    <<SystemMessage(Instructions \o Context(kept)), HumanMessage(q)>>
        \o HistoryMessages(hist)

\* const messages = [SystemMessage, ...history.map(...), HumanMessage]
BuildMessages(kept, hist, q) ==
    <<SystemMessage(Instructions \o Context(kept))>>
        \o HistoryMessages(hist) \o <<HumanMessage(q)>>

(***************************************************************************)
(* The body of the handler's for-await loop, run on each yielded event:    *)
(* break (which returns the generator) when the response has ended, else   *)
(* write the event and pull again.                                         *)
(***************************************************************************)
Deliver(ev, next) ==
    IF resEnded
    THEN /\ gpc' = "cancelled"
         /\ hpc' = "finished"
         /\ written' = written
    ELSE /\ gpc' = next
         /\ hpc' = hpc
         /\ written' = Append(written, ev)

\* the handler's catch without its write: the response just ends
HandlerCatchNoWrite(msg) ==
    /\ written' = written
    /\ resEnded' = TRUE
    /\ hpc' = "finished"

(***************************************************************************)
(* The handler's catch and finally: write an error event if the response   *)
(* is still writable, then end it.                                         *)
(***************************************************************************)
HandlerCatch(msg) ==
    /\ written' = IF ~resEnded THEN Append(written, ErrorEvent(msg)) ELSE written
    /\ resEnded' = TRUE
    /\ hpc' = "finished"

\* streamAnswer's catch without its throw: the failure is logged and the
\* generator returns
RaiseSwallowed(msg) ==
    /\ gpc' = "returned"
    /\ written' = written
    /\ resEnded' = TRUE
    /\ hpc' = "finished"

\* streamAnswer's catch: log and rethrow; the throw lands in the handler
Raise(msg) ==
    /\ gpc' = "thrown"
    /\ HandlerCatch(msg)

(***************************************************************************)
(* The request arrives: the handler writes the ping comment and starts     *)
(* pulling streamAnswer, which first awaits getTeamSettings.               *)
(***************************************************************************)
Begin ==
    /\ hpc = "init"
    /\ hpc' = "pull"
    /\ gpc' = "getSettings"
    /\ UNCHANGED <<teamId, kArg, history, question,
                   collectionIds, stored, settings, effectiveK,
                   retrieved, retrievedDocs, emitted, chatModelBuilt, messages, provider, deltas,
                   failure, written, resEnded, clientClosed, afterClose>>

\* const settings = await this.getTeamSettings(teamId); const effectiveK
LoadSettings ==
    /\ hpc = "pull" /\ gpc = "getSettings"
    /\ \E lookupOk \in BOOLEAN :
          /\ settings' = GetTeamSettings(teamId, lookupOk)
          /\ effectiveK' = EffectiveK(kArg, settings')
    /\ gpc' = "search"
    /\ UNCHANGED <<teamId, kArg, history, question,
                   collectionIds, stored, retrieved, retrievedDocs, emitted,
                   chatModelBuilt, messages, provider, deltas, failure, hpc, written,
                   resEnded, clientClosed, afterClose>>

(***************************************************************************)
(* VectorStoreService.similaritySearchWithScore, as the generator awaits   *)
(* it: its own settings lookup, the pool, the embeddings client, the query *)
(* embedding and the similarity query each can fail.                       *)
(***************************************************************************)
\* what the provider can answer: at most k results, nearest first; the
\* provider may ignore the metadata filter
ProviderResults(k) ==
    {r \in SeqsUpTo(ResultSpace, MaxResults) :
        /\ Len(r) <= k
        /\ \A i \in 1..(Len(r) - 1) : r[i].score <= r[i + 1].score}

\* the step of the search that fails, given the settings it resolved and the
\* fault the environment injects ("none", "init", "embed", "search")
SearchFault(vs, fault) ==
    IF fault = "init" THEN "init"
    ELSE IF ~vs.RAG_OPENAI_API_KEY THEN "embedKey"
    ELSE fault

\* the two filters, then yield { type: "sources", data: sources }
YieldSources(res) ==
    LET kept == FilterCollection(FilterScore(res, ScoreThreshold(settings)),
                                 collectionIds)
    IN /\ retrieved' = res
       /\ retrievedDocs' = kept
       /\ emitted' = Append(emitted, SourcesEvent(kept))
       /\ Deliver(SourcesEvent(kept), "afterSources")
       /\ resEnded' = resEnded

\* the search's catch answering an empty result list instead of throwing
SearchSwallows(msg) == YieldSources(<<>>)

\* catch (error) { Logger.error(...); throw error; }
SearchThrows(msg) ==
    /\ Raise(msg)
    /\ UNCHANGED <<retrieved, retrievedDocs, emitted>>

Search ==
    /\ hpc = "pull" /\ gpc = "search"
    /\ \E vsLookupOk \in BOOLEAN, fault \in {"none", "init", "embed", "search"} :
          LET vs == IF teamId # NoTeam
                    THEN GetTeamSettings(teamId, vsLookupOk)
                    ELSE EmptySettings
              f == SearchFault(vs, fault)
          IN /\ failure' = f
             /\ IF f # "none"
                THEN SearchThrows(f)
                ELSE \E res \in ProviderResults(effectiveK) : YieldSources(res)
    /\ UNCHANGED <<teamId, kArg, history, question,
                   collectionIds, stored, settings, effectiveK,
                   chatModelBuilt, messages, provider, deltas, clientClosed, afterClose>>

(***************************************************************************)
(* The generator resumed after the sources: the sentinel when nothing was  *)
(* retrieved, else getChatModel and chatModel.stream(messages).            *)
(***************************************************************************)
\* AfterSources with the chat model built before the empty check
AfterSourcesEager ==
    /\ hpc = "pull" /\ gpc = "afterSources"
    /\ IF ~ChatApiKey(settings)
       THEN /\ failure' = "chatKey"
            /\ Raise("chatKey")
            /\ UNCHANGED <<chatModelBuilt, messages, emitted>>
       ELSE IF Len(retrievedDocs) = 0
       THEN /\ chatModelBuilt' = TRUE
            /\ messages' = messages
            /\ emitted' = Append(emitted, ChunkEvent(NoRelevantDocuments))
            /\ Deliver(ChunkEvent(NoRelevantDocuments), "afterSentinel")
            /\ UNCHANGED <<failure, resEnded>>
       ELSE /\ chatModelBuilt' = TRUE
            /\ messages' = BuildMessages(retrievedDocs, history, question)
            /\ gpc' = "streamStart"
            /\ UNCHANGED <<emitted, failure, hpc, written, resEnded>>
    /\ UNCHANGED <<teamId, kArg, history, question,
                   collectionIds, stored, settings, effectiveK,
                   retrieved, retrievedDocs, provider, deltas, clientClosed, afterClose>>

AfterSources ==
    /\ hpc = "pull" /\ gpc = "afterSources"
    /\ IF Len(retrievedDocs) = 0
       THEN /\ emitted' = Append(emitted, ChunkEvent(NoRelevantDocuments))
            /\ Deliver(ChunkEvent(NoRelevantDocuments), "afterSentinel")
            /\ UNCHANGED <<chatModelBuilt, messages, failure, resEnded>>
       ELSE IF ~ChatApiKey(settings)
       THEN /\ failure' = "chatKey"
            /\ Raise("chatKey")
            /\ UNCHANGED <<chatModelBuilt, messages, emitted>>
       ELSE /\ chatModelBuilt' = TRUE
            /\ messages' = BuildMessages(retrievedDocs, history, question)
            /\ gpc' = "streamStart"
            /\ UNCHANGED <<emitted, failure, hpc, written, resEnded>>
    /\ UNCHANGED <<teamId, kArg, history, question,
                   collectionIds, stored, settings, effectiveK,
                   retrieved, retrievedDocs, provider, deltas, clientClosed, afterClose>>

\* yield { type: "done" } of the empty path
AfterSentinel ==
    /\ hpc = "pull" /\ gpc = "afterSentinel"
    /\ emitted' = Append(emitted, DoneEvent)
    /\ Deliver(DoneEvent, "afterEmptyDone")
    /\ UNCHANGED <<teamId, kArg, history, question,
                   collectionIds, stored, settings, effectiveK,
                   retrieved, retrievedDocs, chatModelBuilt, messages, provider, deltas, failure,
                   resEnded, clientClosed, afterClose>>

\* the return that follows the empty path's done, with the statement that
\* follows it left out: the generator goes on to the chat model
EmptyReturnMissing ==
    /\ hpc = "pull" /\ gpc = "afterEmptyDone"
    /\ IF ~ChatApiKey(settings)
       THEN /\ failure' = "chatKey"
            /\ Raise("chatKey")
            /\ UNCHANGED <<chatModelBuilt, messages>>
       ELSE /\ chatModelBuilt' = TRUE
            /\ messages' = BuildMessages(retrievedDocs, history, question)
            /\ gpc' = "streamStart"
            /\ UNCHANGED <<failure, hpc, written, resEnded>>
    /\ UNCHANGED <<teamId, kArg, history, question,
                   collectionIds, stored, settings, effectiveK,
                   retrieved, retrievedDocs, emitted, provider, deltas, clientClosed,
                   afterClose>>

\* the generator resumed after the empty path's done: return; the handler's
\* loop ends and its finally ends the response
AfterEmptyDone ==
    /\ hpc = "pull" /\ gpc = "afterEmptyDone"
    /\ gpc' = "returned"
    /\ hpc' = "finished"
    /\ resEnded' = TRUE
    /\ UNCHANGED <<teamId, kArg, history, question,
                   collectionIds, stored, settings, effectiveK,
                   retrieved, retrievedDocs, emitted, chatModelBuilt, messages, provider, deltas,
                   failure, written, clientClosed, afterClose>>

\* the generator resumed after the done that follows the provider's stream:
\* it returns, the handler's loop ends and its finally ends the response
AfterDone ==
    /\ hpc = "pull" /\ gpc = "afterDone"
    /\ gpc' = "returned"
    /\ hpc' = "finished"
    /\ resEnded' = TRUE
    /\ UNCHANGED <<teamId, kArg, history, question,
                   collectionIds, stored, settings, effectiveK,
                   retrieved, retrievedDocs, emitted, chatModelBuilt, messages, provider, deltas,
                   failure, written, clientClosed, afterClose>>

\* const stream = await chatModel.stream(messages)
StreamStart ==
    /\ hpc = "pull" /\ gpc = "streamStart"
    /\ \E ok \in BOOLEAN :
          IF ok
          THEN /\ provider' = "open"
               /\ gpc' = "streamNext"
               /\ UNCHANGED <<failure, hpc, written, resEnded>>
          ELSE /\ provider' = provider
               /\ failure' = "streamStart"
               /\ Raise("streamStart")
    /\ UNCHANGED <<teamId, kArg, history, question,
                   collectionIds, stored, settings, effectiveK,
                   retrieved, retrievedDocs, emitted, chatModelBuilt, messages, deltas,
                   clientClosed, afterClose>>

\* StreamDelta without the test of chunk.content: every delta is yielded
StreamDeltaUnfiltered(c) ==
    /\ Len(deltas) < MaxDeltas
    /\ deltas' = Append(deltas, c)
    /\ afterClose' = IF clientClosed THEN afterClose + 1 ELSE afterClose
    /\ emitted' = Append(emitted, ChunkEvent(c))
    /\ Deliver(ChunkEvent(c), "streamNext")
    /\ provider' = IF resEnded THEN "cancelled" ELSE provider
    /\ UNCHANGED <<failure, resEnded>>

(***************************************************************************)
(* One turn of for await (const chunk of stream): the provider delivers a  *)
(* delta, ends the stream or fails.  A delta with content is yielded as a  *)
(* chunk; a break in the handler returns the generator, which returns the  *)
(* provider's stream.                                                      *)
(***************************************************************************)
StreamDelta(c) ==
    /\ Len(deltas) < MaxDeltas
    /\ deltas' = Append(deltas, c)
    /\ afterClose' = IF clientClosed THEN afterClose + 1 ELSE afterClose
    /\ IF c # ""
       THEN /\ emitted' = Append(emitted, ChunkEvent(c))
            /\ Deliver(ChunkEvent(c), "streamNext")
            /\ provider' = IF resEnded THEN "cancelled" ELSE provider
       ELSE UNCHANGED <<emitted, gpc, hpc, written, provider>>
    /\ UNCHANGED <<failure, resEnded>>

StreamEnd ==
    /\ provider' = "ended"
    /\ emitted' = Append(emitted, DoneEvent)
    /\ Deliver(DoneEvent, "afterDone")
    /\ UNCHANGED <<deltas, afterClose, failure, resEnded>>

StreamError ==
    /\ provider' = "errored"
    /\ failure' = "stream"
    /\ Raise("stream")
    /\ UNCHANGED <<deltas, afterClose, emitted>>

StreamNext ==
    /\ hpc = "pull" /\ gpc = "streamNext"
    /\ \/ \E c \in DeltaContents : StreamDelta(c)
       \/ StreamEnd
       \/ StreamError
    /\ UNCHANGED <<teamId, kArg, history, question,
                   collectionIds, stored, settings, effectiveK,
                   retrieved, retrievedDocs, chatModelBuilt, messages, clientClosed>>

\* the client goes away: the "close" listener (cleanup) ends the response
Disconnect ==
    /\ hpc = "pull"
    /\ ~clientClosed
    /\ clientClosed' = TRUE
    /\ resEnded' = TRUE
    /\ UNCHANGED <<teamId, kArg, history, question,
                   collectionIds, stored, gpc, settings,
                   effectiveK, retrieved, retrievedDocs, emitted, chatModelBuilt, messages,
                   provider, deltas, failure, hpc, written, afterClose>>

ChatStart ==
    /\ teamId \in TeamIds \cup {NoTeam}
    /\ kArg \in {Unset, 1}
    /\ history \in {<<>>, <<HistoryMessage("user", "h1")>>}
    /\ question = "q1"
    /\ collectionIds \in {{}, {"c1"}}
    /\ stored \in SettingsSpace
    /\ gpc = "created"
    /\ settings = EmptySettings
    /\ effectiveK = DefaultK
    /\ retrieved = <<>>
    /\ retrievedDocs = <<>>
    /\ emitted = <<>>
    /\ chatModelBuilt = FALSE
    /\ messages = <<>>
    /\ provider = "none"
    /\ deltas = <<>>
    /\ failure = "none"
    /\ hpc = "init"
    /\ written = <<>>
    /\ resEnded = FALSE
    /\ clientClosed = FALSE
    /\ afterClose = 0

(***************************************************************************)
(* The indexing pipeline: the host's documents and lifecycle events, the   *)
(* event queue with its delayed jobs, DocumentIndexProcessor.perform and   *)
(* the rows of rag_vectors.                                                *)
(***************************************************************************)
\* the documents of the run
DocIds == {"d1"}
\* the perform() invocations that can be in flight together
Workers == {1, 2}
\* a document's body: 0 is the empty body, c > 0 a body the splitter cuts
\* into c chunks
Contents == {0, 1, 2}

\* a document of the host: a draft, or published; a published document has
\* been indexed at its current version or not at all (the plugin is newer)
Draft ==
    [exists |-> TRUE, published |-> FALSE, archived |-> FALSE,
     updatedAt |-> 0, content |-> 1]
Published ==
    [exists |-> TRUE, published |-> TRUE, archived |-> FALSE,
     updatedAt |-> 0, content |-> 2]

Event(n, d, t, f) ==
    [name |-> n, documentId |-> d, createdAt |-> t, force |-> f]

NoEvent == Event("none", "none", 0, FALSE)
NoSnap == [content |-> 0, updatedAt |-> 0]
IdleWorker ==
    [pc |-> "idle", event |-> NoEvent, snap |-> NoSnap, removeFailed |-> FALSE]
NoLast ==
    [event |-> NoEvent, result |-> "none", snap |-> NoSnap, removeFailed |-> FALSE]

\* the document as a perform() read it: its body and its updatedAt
Snap(d) == [content |-> docs[d].content, updatedAt |-> docs[d].updatedAt]

\* the rows added with no updatedAt in their metadata
SplitUnstamped(snap) ==
    [i \in 1..snap.content |->
        [updatedAt |-> Unset, content |-> snap.content, ord |-> i]]

\* the rows vectorStore.indexDocument adds for a document: one per chunk of
\* the body, each carrying the metadata handed in (updatedAt)
Split(snap) ==
    [i \in 1..snap.content |->
        [updatedAt |-> snap.updatedAt, content |-> snap.content, ord |-> i]]

\* jobId with the event's timestamp in the place of the document's id
JobIdPerEvent(e) == <<"rag-index", ToString(e.createdAt)>>

\* jobId: `rag-index-${event.documentId}`
JobId(e) == <<"rag-index", e.documentId>>

\* the queued event built without the spread of the update event
DebouncedEventBare(e) ==
    Event("documents.update.debounced", e.documentId, 0, FALSE)

\* { ...event, name: "documents.update.debounced" }
DebouncedEvent(e) == [e EXCEPT !.name = "documents.update.debounced"]

\* the queue's add with a jobId: the new delayed job takes the place of the
\* delayed job that has the same jobId
QueueAdd(q, jobId, e) ==
    {j \in q : j.jobId # jobId} \cup {[jobId |-> jobId, event |-> e]}

\* the delayed jobs of a document
JobsOf(d) == {j \in delayed : j.event.documentId = d}

\* the free slot a perform() starts in: the first idle one
IdleSlot(w) ==
    /\ workers[w].pc = "idle"
    /\ \A v \in Workers : v < w => workers[v].pc # "idle"

\* perform() ends: its slot is free again and its outcome is recorded
Complete(w, e, result, snap, removeFailed) ==
    /\ workers' = [workers EXCEPT ![w] = IdleWorker]
    /\ last' = [event |-> e, result |-> result, snap |-> snap,
                removeFailed |-> removeFailed]
    /\ lastDone' = last'

\* perform() goes on to its next await
Goto(w, pc, e, snap, removeFailed) ==
    /\ workers' = [workers EXCEPT ![w] =
                      [pc |-> pc, event |-> e, snap |-> snap,
                       removeFailed |-> removeFailed]]
    /\ last' = NoLast
    /\ lastDone' = lastDone

(***************************************************************************)
(* The host: a document is published, edited or deleted, or rag.indexAll   *)
(* queues an index event for a published document.                         *)
(***************************************************************************)
HostPublish(d) ==
    /\ clock < MaxEvents
    /\ docs[d].exists /\ ~docs[d].published
    /\ clock' = clock + 1
    /\ docs' = [docs EXCEPT ![d].published = TRUE, ![d].updatedAt = clock + 1]
    /\ events' = events \cup {Event("documents.publish", d, clock + 1, FALSE)}
    /\ last' = NoLast
    /\ lastDone' = NoLast
    /\ UNCHANGED <<delayed, workers, index, scheds, lastSched>>

HostUpdate(d, c) ==
    /\ clock < MaxEvents
    /\ docs[d].exists
    /\ clock' = clock + 1
    /\ docs' = [docs EXCEPT ![d].content = c, ![d].updatedAt = clock + 1]
    /\ events' = events \cup {Event("documents.update", d, clock + 1, FALSE)}
    /\ last' = NoLast
    /\ lastDone' = NoLast
    /\ UNCHANGED <<delayed, workers, index, scheds, lastSched>>

HostDelete(d) ==
    /\ clock < MaxEvents
    /\ docs[d].exists
    /\ clock' = clock + 1
    /\ docs' = [docs EXCEPT ![d].exists = FALSE]
    /\ events' = events \cup {Event("documents.delete", d, clock + 1, FALSE)}
    /\ last' = NoLast
    /\ lastDone' = NoLast
    /\ UNCHANGED <<delayed, workers, index, scheds, lastSched>>

\* a published document is archived: it keeps its row and its publishedAt
HostArchive(d) ==
    /\ clock < MaxEvents
    /\ docs[d].exists /\ docs[d].published /\ ~docs[d].archived
    /\ clock' = clock + 1
    /\ docs' = [docs EXCEPT ![d].archived = TRUE]
    /\ events' = events \cup {Event("documents.archive", d, clock + 1, FALSE)}
    /\ last' = NoLast
    /\ lastDone' = NoLast
    /\ UNCHANGED <<delayed, workers, index, scheds, lastSched>>

HostIndexAll(d, force) ==
    /\ clock < MaxEvents
    /\ docs[d].exists /\ docs[d].published
    /\ clock' = clock + 1
    /\ events' = events \cup {Event("documents.index", d, clock + 1, force)}
    /\ last' = NoLast
    /\ UNCHANGED <<docs, delayed, workers, index, lastDone, scheds, lastSched>>

\* indexDocument with the empty body sent on to the removal
IndexDocumentStartClearing(w, e) ==
    LET d == e.documentId IN
    IF ~docs[d].exists \/ ~docs[d].published
    THEN Complete(w, e, "skippedUnpublished", NoSnap, FALSE)
    ELSE Goto(w, IF e.force \/ docs[d].content = 0 THEN "remove" ELSE "meta",
              e, Snap(d), FALSE)

(***************************************************************************)
(* indexDocument, first await: findByPk and toMarkdown.  Unpublished,      *)
(* missing and empty documents are skipped; a forced reindex goes straight *)
(* to the removal, the others look at the indexed metadata first.          *)
(***************************************************************************)
IndexDocumentStart(w, e) ==
    LET d == e.documentId IN
    IF ~docs[d].exists \/ ~docs[d].published
    THEN Complete(w, e, "skippedUnpublished", NoSnap, FALSE)
    ELSE IF docs[d].content = 0
    THEN Complete(w, e, "skippedEmpty", Snap(d), FALSE)
    ELSE Goto(w, IF e.force THEN "remove" ELSE "meta", e, Snap(d), FALSE)

\* the publish and index case put under the settle case's timestamp check
PerformIndexChecked(w, e) ==
    /\ IdleSlot(w)
    /\ e \in events
    /\ e.name \in {"documents.publish", "documents.index"}
    /\ events' = events \ {e}
    /\ IF docs[e.documentId].updatedAt > e.createdAt
       THEN Complete(w, e, "superseded", NoSnap, FALSE)
       ELSE IndexDocumentStart(w, e)
    /\ UNCHANGED <<docs, clock, delayed, index, scheds, lastSched>>

\* case "documents.index", "documents.publish"
PerformIndex(w, e) ==
    /\ IdleSlot(w)
    /\ e \in events
    /\ e.name \in {"documents.publish", "documents.index"}
    /\ events' = events \ {e}
    /\ IndexDocumentStart(w, e)
    /\ UNCHANGED <<docs, clock, delayed, index, scheds, lastSched>>

\* the update case without its publishedAt check
PerformUpdateUnchecked(w, e) ==
    /\ IdleSlot(w)
    /\ e \in events
    /\ e.name = "documents.update"
    /\ events' = events \ {e}
    /\ Goto(w, "add", e, NoSnap, FALSE)
    /\ UNCHANGED <<docs, clock, delayed, index, scheds, lastSched>>

\* case "documents.update": findByPk, return unless published
PerformUpdate(w, e) ==
    /\ IdleSlot(w)
    /\ e \in events
    /\ e.name = "documents.update"
    /\ events' = events \ {e}
    /\ IF ~docs[e.documentId].exists \/ ~docs[e.documentId].published
       THEN Complete(w, e, "dropped", NoSnap, FALSE)
       ELSE Goto(w, "add", e, NoSnap, FALSE)
    /\ UNCHANGED <<docs, clock, delayed, index, scheds, lastSched>>

\* case "documents.update": globalEventQueue().add(..., { delay, jobId })
ScheduleDebounced(w) ==
    /\ workers[w].pc = "add"
    /\ LET e == workers[w].event IN
          /\ delayed' = QueueAdd(delayed, JobId(e), DebouncedEvent(e))
          /\ scheds' = [scheds EXCEPT ![e.documentId] = @ + 1]
          /\ lastSched' = [lastSched EXCEPT ![e.documentId] = e.createdAt]
          /\ Complete(w, e, "scheduled", NoSnap, FALSE)
    /\ UNCHANGED <<docs, clock, events, index>>

\* the settle case with >= in the place of > in its timestamp check
PerformDebouncedInclusive(w, j) ==
    /\ IdleSlot(w)
    /\ j \in delayed
    /\ delayed' = delayed \ {j}
    /\ LET e == j.event
           d == e.documentId
       IN /\ scheds' = [scheds EXCEPT ![d] = 0]
          /\ IF ~docs[d].exists \/ ~docs[d].published
             THEN Complete(w, e, "dropped", NoSnap, FALSE)
             ELSE IF docs[d].updatedAt >= e.createdAt
             THEN Complete(w, e, "superseded", NoSnap, FALSE)
             ELSE Goto(w, "find", e, NoSnap, FALSE)
    /\ UNCHANGED <<docs, clock, events, index, lastSched>>

\* case "documents.update.debounced": the delayed job fires; findByPk, then
\* the three drops, else indexDocument
PerformDebounced(w, j) ==
    /\ IdleSlot(w)
    /\ j \in delayed
    /\ delayed' = delayed \ {j}
    /\ LET e == j.event
           d == e.documentId
       IN /\ scheds' = [scheds EXCEPT ![d] = 0]
          /\ IF ~docs[d].exists
             THEN Complete(w, e, "dropped", NoSnap, FALSE)
             ELSE IF ~docs[d].published
             THEN Complete(w, e, "dropped", NoSnap, FALSE)
             ELSE IF docs[d].updatedAt > e.createdAt
             THEN Complete(w, e, "superseded", NoSnap, FALSE)
             ELSE Goto(w, "find", e, NoSnap, FALSE)
    /\ UNCHANGED <<docs, clock, events, index, lastSched>>

\* indexDocument as the settle job calls it
IndexFind(w) ==
    /\ workers[w].pc = "find"
    /\ IndexDocumentStart(w, workers[w].event)
    /\ UNCHANGED <<docs, clock, events, delayed, index, scheds, lastSched>>

\* findDocumentMetadata: what SELECT metadata ... LIMIT 1 can answer, null
\* without a row of the document, else the metadata of any one of its rows
FindDocumentMetadata(rows) ==
    IF rows = <<>>
    THEN {[found |-> FALSE, updatedAt |-> Unset]}
    ELSE {[found |-> TRUE, updatedAt |-> rows[i].updatedAt] : i \in 1..Len(rows)}

\* needsReindex with <= in the place of <
NeedsReindexInclusive(existingMetadata, snap) ==
    \/ ~existingMetadata.found
    \/ existingMetadata.updatedAt = Unset
    \/ existingMetadata.updatedAt <= snap.updatedAt

\* !existingMetadata || !existingMetadata.updatedAt ||
\* new Date(existingMetadata.updatedAt) < document.updatedAt
NeedsReindex(existingMetadata, snap) ==
    \/ ~existingMetadata.found
    \/ existingMetadata.updatedAt = Unset
    \/ existingMetadata.updatedAt < snap.updatedAt

\* the non-forced staleness check; the metadata query can fail
IndexMeta(w) ==
    /\ workers[w].pc = "meta"
    /\ LET e == workers[w].event
           snap == workers[w].snap
       IN \/ Complete(w, e, "raised", snap, FALSE)
          \/ \E existingMetadata \in FindDocumentMetadata(index[e.documentId]) :
                IF NeedsReindex(existingMetadata, snap)
                THEN Goto(w, "remove", e, snap, FALSE)
                ELSE Complete(w, e, "upToDate", snap, FALSE)
    /\ UNCHANGED <<docs, clock, events, delayed, index, scheds, lastSched>>

\* removeDocument: deleteDocument's rows are gone, or its failure is logged
\* and swallowed and the rows stay
RemoveDocument(rows, ok) == IF ok THEN <<>> ELSE rows

\* await this.removeDocument(documentId) before the insert
IndexRemove(w) ==
    /\ workers[w].pc = "remove"
    /\ LET e == workers[w].event IN
       \E ok \in BOOLEAN :
          /\ index' = [index EXCEPT ![e.documentId] = RemoveDocument(@, ok)]
          /\ Goto(w, "insert", e, workers[w].snap, ~ok)
    /\ UNCHANGED <<docs, clock, events, delayed, scheds, lastSched>>

\* the insert with its failure logged and not rethrown
IndexInsertSilent(w) ==
    /\ workers[w].pc = "insert"
    /\ LET e == workers[w].event
           snap == workers[w].snap
       IN \/ /\ index' = [index EXCEPT ![e.documentId] = @ \o Split(snap)]
             /\ Complete(w, e, "indexed", snap, workers[w].removeFailed)
          \/ /\ index' = index
             /\ Complete(w, e, "indexed", snap, workers[w].removeFailed)
    /\ UNCHANGED <<docs, clock, events, delayed, scheds, lastSched>>

\* await vectorStore.indexDocument(content, metadata): the rows are added,
\* or the embedding client or the provider fails and the error is rethrown
IndexInsert(w) ==
    /\ workers[w].pc = "insert"
    /\ LET e == workers[w].event
           snap == workers[w].snap
       IN \/ /\ index' = [index EXCEPT ![e.documentId] = @ \o Split(snap)]
             /\ Complete(w, e, "indexed", snap, workers[w].removeFailed)
          \/ /\ index' = index
             /\ Complete(w, e, "raised", snap, workers[w].removeFailed)
    /\ UNCHANGED <<docs, clock, events, delayed, scheds, lastSched>>

\* vectorStore.indexDocument for a team whose settings hold no
\* RAG_OPENAI_API_KEY: getTeamSettings, then getVectorStore, whose
\* getEmbeddings throws; nothing is added and the error is rethrown
IndexInsertKeyless(w) ==
    /\ workers[w].pc = "insert"
    /\ \A t \in TeamIds, lookupOk \in BOOLEAN :
          ~GetTeamSettings(t, lookupOk).RAG_OPENAI_API_KEY
    /\ index' = index
    /\ Complete(w, workers[w].event, "raised", workers[w].snap,
                workers[w].removeFailed)
    /\ UNCHANGED <<docs, clock, events, delayed, scheds, lastSched>>

\* the delete and archive case with the removal's failure rethrown
PerformDeleteStrict(w, e) ==
    /\ IdleSlot(w)
    /\ e \in events
    /\ e.name \in {"documents.delete", "documents.archive"}
    /\ events' = events \ {e}
    /\ \E ok \in BOOLEAN :
          /\ index' = [index EXCEPT ![e.documentId] = RemoveDocument(@, ok)]
          /\ Complete(w, e, IF ok THEN "removed" ELSE "raised", NoSnap, ~ok)
    /\ UNCHANGED <<docs, clock, delayed, scheds, lastSched>>

\* case "documents.delete", "documents.archive"
PerformDelete(w, e) ==
    /\ IdleSlot(w)
    /\ e \in events
    /\ e.name \in {"documents.delete", "documents.archive"}
    /\ events' = events \ {e}
    /\ \E ok \in BOOLEAN :
          /\ index' = [index EXCEPT ![e.documentId] = RemoveDocument(@, ok)]
          /\ Complete(w, e, "removed", NoSnap, ~ok)
    /\ UNCHANGED <<docs, clock, delayed, scheds, lastSched>>

IndexStart ==
    /\ docs \in [DocIds -> {Draft, Published}]
    /\ clock = 0
    /\ events = {}
    /\ delayed = {}
    /\ workers = [w \in Workers |-> IdleWorker]
    /\ \E indexed \in SUBSET {d \in DocIds : docs[d].published} :
          index = [d \in DocIds |->
                     IF d \in indexed
                     THEN Split([content |-> docs[d].content,
                                 updatedAt |-> docs[d].updatedAt])
                     ELSE <<>>]
    /\ last = NoLast
    /\ lastDone = NoLast
    /\ scheds = [d \in DocIds |-> 0]
    /\ lastSched = [d \in DocIds |-> 0]

(***************************************************************************)
(* The job status aggregation of rag.documents: the seven partitions of    *)
(* the two queues as Promise.all answered them, and the four scans that    *)
(* fill indexingDocs.                                                      *)
(***************************************************************************)
\* the documents the jobs are about
StatusDocIds == {"d1", "d2"}
\* the event names of the jobs: four the processor indexes for, one it
\* does not
JobNames ==
    {"documents.update.debounced", "documents.publish", "documents.update",
     "documents.index", "documents.delete"}
\* job.failedReason of a failed job
FailedReasons == {"e1", "e2"}
NoReason == "none"

\* [globalActive, globalDelayed, globalWaiting, processorActive,
\*  processorWaiting, processorDelayed, processorFailed]
Partitions ==
    <<"globalActive", "globalDelayed", "globalWaiting", "processorActive",
      "processorWaiting", "processorDelayed", "processorFailed">>

\* a job and the partition that holds it; only a failed job has a reason
PlacedJob ==
    {j \in [partition : 1..Len(Partitions), name : JobNames,
            documentId : StatusDocIds, failedReason : FailedReasons \cup {NoReason}] :
        (j.failedReason # NoReason) <=> (Partitions[j.partition] = "processorFailed")}

\* the jobs of the two queues, partition after partition, each partition in
\* the order the queue answers it
PlacedJobs ==
    {s \in SeqsUpTo(PlacedJob, MaxJobs) :
        \A i \in 1..(Len(s) - 1) : s[i].partition <= s[i + 1].partition}

\* the jobs of one partition
JobsIn(placed, p) ==
    SelectSeq(placed, LAMBDA j : Partitions[j.partition] = p)

\* a document that is not a key of indexingDocs
NoStatus == [status |-> "none", error |-> NoReason]

\* indexingDocs.has(documentId)
Has(m, d) == m[d].status # "none"

\* indexingDocs.set(documentId, { documentId, status, error })
SetStatus(m, d, status, error) ==
    [m EXCEPT ![d] = [status |-> status, error |-> error]]

\* the names scan 1 looks for in the lifecycle queue
GlobalNames ==
    {"documents.update.debounced", "documents.publish", "documents.index"}

\* the names scans 2 to 4 look for in the processor queue
ProcessorNames ==
    {"documents.publish", "documents.update", "documents.update.debounced",
     "documents.index"}

\* 1. for (const job of [...globalActive, ...globalDelayed, ...globalWaiting])
RECURSIVE ScanGlobalJobs(_, _)
ScanGlobalJobs(m, jobs) ==
    IF jobs = <<>> THEN m
    ELSE LET job == Head(jobs)
             status == IF job.name = "documents.update.debounced"
                       THEN "pending"
                       ELSE "indexing"
         IN ScanGlobalJobs(
                IF job.name \in GlobalNames
                THEN SetStatus(m, job.documentId, status, NoReason)
                ELSE m,
                Tail(jobs))

\* 2. and 3. for (const job of ...) indexingDocs.set(..., { status })
RECURSIVE ScanProcessorJobs(_, _, _)
ScanProcessorJobs(m, jobs, status) ==
    IF jobs = <<>> THEN m
    ELSE LET job == Head(jobs)
         IN ScanProcessorJobs(
                IF job.name \in ProcessorNames
                THEN SetStatus(m, job.documentId, status, NoReason)
                ELSE m,
                Tail(jobs), status)

\* the scan of the failed jobs without its has() check
RECURSIVE ScanFailedJobsOverwriting(_, _)
ScanFailedJobsOverwriting(m, jobs) ==
    IF jobs = <<>> THEN m
    ELSE LET job == Head(jobs)
         IN ScanFailedJobsOverwriting(
                IF job.name \in ProcessorNames
                THEN SetStatus(m, job.documentId, "failed", job.failedReason)
                ELSE m,
                Tail(jobs))

\* the last scan: for (const job of processorFailed)
\*   if (!indexingDocs.has(event.documentId)) indexingDocs.set(..., "failed")
RECURSIVE ScanFailedJobs(_, _)
ScanFailedJobs(m, jobs) ==
    IF jobs = <<>> THEN m
    ELSE LET job == Head(jobs)
         IN ScanFailedJobs(
                IF job.name \in ProcessorNames /\ ~Has(m, job.documentId)
                THEN SetStatus(m, job.documentId, "failed", job.failedReason)
                ELSE m,
                Tail(jobs))

ScanGlobal ==
    /\ statusPc = "global"
    /\ indexingDocs' =
          ScanGlobalJobs(indexingDocs,
                         queues["globalActive"] \o queues["globalDelayed"]
                             \o queues["globalWaiting"])
    /\ statusPc' = "processor"
    /\ UNCHANGED <<queues, targetTeamId, documents, indexing>>

ScanProcessor ==
    /\ statusPc = "processor"
    /\ indexingDocs' =
          ScanProcessorJobs(indexingDocs,
                            queues["processorActive"] \o queues["processorWaiting"],
                            "indexing")
    /\ statusPc' = "retrying"
    /\ UNCHANGED <<queues, targetTeamId, documents, indexing>>

ScanRetrying ==
    /\ statusPc = "retrying"
    /\ indexingDocs' =
          ScanProcessorJobs(indexingDocs, queues["processorDelayed"], "retrying")
    /\ statusPc' = "failed"
    /\ UNCHANGED <<queues, targetTeamId, documents, indexing>>

ScanFailed ==
    /\ statusPc = "failed"
    /\ indexingDocs' = ScanFailedJobs(indexingDocs, queues["processorFailed"])
    /\ statusPc' = "report"
    /\ UNCHANGED <<queues, targetTeamId, documents, indexing>>

\* the entry of data.indexing for a document of the map
IndexingEntry(m, d) ==
    [documentId |-> d, chunks |-> 0, status |-> m[d].status,
     error |-> m[d].error]

\* every order in which findAll can answer the documents of ds
Orders(ds) ==
    {o \in [1..Cardinality(ds) -> ds] :
        \A i, j \in 1..Cardinality(ds) : i # j => o[i] # o[j]}

\* the title lookup without its teamId condition
ReportAnyTeam ==
    /\ statusPc = "report"
    /\ \E o \in Orders({d \in StatusDocIds : Has(indexingDocs, d)}) :
          indexing' = [i \in 1..Len(o) |-> IndexingEntry(indexingDocs, o[i])]
    /\ statusPc' = "done"
    /\ UNCHANGED <<queues, indexingDocs, targetTeamId, documents>>

\* Document.findAll({ where: { id: indexingDocIds, teamId: targetTeamId } })
\* and one entry pushed per document found
Report ==
    /\ statusPc = "report"
    /\ \E o \in Orders({d \in StatusDocIds :
                            /\ Has(indexingDocs, d)
                            /\ documents[d] = targetTeamId}) :
          indexing' = [i \in 1..Len(o) |-> IndexingEntry(indexingDocs, o[i])]
    /\ statusPc' = "done"
    /\ UNCHANGED <<queues, indexingDocs, targetTeamId, documents>>

\* the documents tables of the run: both documents of one team, or one of
\* each of two teams
DocumentTables ==
    {[d \in StatusDocIds |-> "t1"],
     [d \in StatusDocIds |-> IF d = "d1" THEN "t1" ELSE "t2"]}

\* no rag.documents request
StatusQuiet ==
    /\ queues = [p \in {Partitions[i] : i \in 1..Len(Partitions)} |-> <<>>]
    /\ statusPc = "idle"
    /\ indexingDocs = [d \in StatusDocIds |-> NoStatus]
    /\ targetTeamId = NoTeam
    /\ documents = [d \in StatusDocIds |-> "t1"]
    /\ indexing = <<>>

\* rag.documents after its Promise.all: the partitions read, the map empty
StatusStart ==
    /\ \E placed \in PlacedJobs :
          queues = [p \in {Partitions[i] : i \in 1..Len(Partitions)} |->
                       JobsIn(placed, p)]
    /\ statusPc = "global"
    /\ indexingDocs = [d \in StatusDocIds |-> NoStatus]
    /\ targetTeamId \in TeamIds
    /\ documents \in DocumentTables
    /\ indexing = <<>>

(***************************************************************************)
(* The chunking configuration: rag.settings.set saves what the admin       *)
(* posts, and indexDocument resolves the splitter's options from what was  *)
(* saved.                                                                  *)
(***************************************************************************)
\* the defaults of indexDocument
DefaultChunkSize == 1000
DefaultChunkOverlap == 200

\* what a posted or saved size setting can hold: Unset is an absent field,
\* 0 a falsy value (0 or the blank string of an emptied form field)
ChunkSizeValues == {Unset, 0, 100, 500, 1000}
ChunkOverlapValues == {Unset, 0, 50, 200, 1500}
ChunkSettings ==
    [RAG_CHUNK_SIZE : ChunkSizeValues, RAG_CHUNK_OVERLAP : ChunkOverlapValues]

\* no integration: getTeamSettings answers {}
NoChunkSettings == [RAG_CHUNK_SIZE |-> Unset, RAG_CHUNK_OVERLAP |-> Unset]
\* indexDocument has not built a splitter
NoSplitter == [chunkSize |-> Unset, chunkOverlap |-> Unset]

\* { ...integration.settings, ...settings }
MergeSettings(old, body) ==
    [f \in DOMAIN old |-> IF body[f] # Unset THEN body[f] ELSE old[f]]

\* v || d
OrDefault(v, d) == IF v = Unset \/ v = 0 THEN d ELSE v

\* rag.settings.set: 403 unless the user is an admin, else the body is
\* merged into the saved settings, unvalidated
SettingsSet(isAdmin, body) ==
    /\ integration' = IF isAdmin
                      THEN MergeSettings(integration, body)
                      ELSE integration
    /\ UNCHANGED splitter

\* indexDocument: chunkSize and chunkOverlap, each the saved value or its
\* default, handed to RecursiveCharacterTextSplitter.fromLanguage
ResolveSplitter ==
    /\ splitter' =
          [chunkSize |-> OrDefault(integration.RAG_CHUNK_SIZE, DefaultChunkSize),
           chunkOverlap |->
               OrDefault(integration.RAG_CHUNK_OVERLAP, DefaultChunkOverlap)]
    /\ UNCHANGED integration

ConfigQuiet ==
    /\ integration = NoChunkSettings
    /\ splitter = NoSplitter

(***************************************************************************)
(* rag.delete: the handler hands the documentId of the body to             *)
(* deleteDocument, which deletes the rows whose metadata contains it.      *)
(***************************************************************************)
VectorDocIds == {"d1", "d2"}
\* a row of rag_vectors: the metadata of one chunk
VectorRows ==
    [documentId : VectorDocIds, teamId : ChunkTeamIds, chunkIndex : {0, 1}]

\* the tables of the run: the chunks of a document carry its team
VectorTables ==
    {t \in SUBSET VectorRows :
        \A r1, r2 \in t : r1.documentId = r2.documentId => r1.teamId = r2.teamId}

NoDelete == [teamId |-> NoTeam, documentId |-> "none", removed |-> {}]

\* DELETE FROM rag_vectors WHERE metadata @> {"documentId": documentId}
DeleteDocument(rows, documentId) ==
    {r \in rows : r.documentId # documentId}

\* rag.delete of a user of team userTeam; the query succeeds or throws
RagDelete(userTeam, documentId, ok) ==
    /\ vectors' = IF ok THEN DeleteDocument(vectors, documentId) ELSE vectors
    /\ lastDelete' = [teamId |-> userTeam, documentId |-> documentId,
                      removed |-> vectors \ vectors']

DeleteQuiet ==
    /\ vectors = {}
    /\ lastDelete = NoDelete

DeleteStart ==
    /\ vectors \in VectorTables
    /\ lastDelete = NoDelete

(***************************************************************************)
(* The chat scene of the client: onmessage of a sources event numbers the  *)
(* sources, groups them by document, sorts each group's positions and      *)
(* keeps the first groups.                                                 *)
(***************************************************************************)
\* Object.values(grouped).slice(0, 5)
SurfacedLimit == 5

\* the lists of n sources, each source the id of its document, the
\* documents numbered by first appearance and one more of them than are
\* surfaced
RECURSIVE SourceListsOf(_)
SourceListsOf(n) ==
    IF n = 0 THEN {<<>>}
    ELSE UNION {{Append(s, d) :
                    d \in {e \in 1..(SurfacedLimit + 1) :
                              e <= Cardinality({s[i] : i \in 1..Len(s)}) + 1}} :
                s \in SourceListsOf(n - 1)}

SourceLists == UNION {SourceListsOf(n) : n \in 0..MaxSources}

\* rawSources.map((s, i) => ({ ...s, index: i + 1 })).reduce(...): the
\* groups in the order their documents first appear
RECURSIVE GroupByDocument(_, _, _)
GroupByDocument(acc, raw, i) ==
    IF i > Len(raw) THEN acc
    ELSE LET docId == raw[i]
             at == {k \in 1..Len(acc) : acc[k].documentId = docId}
         IN IF at = {}
            THEN GroupByDocument(
                     Append(acc, [documentId |-> docId, index |-> i,
                                  indices |-> <<i>>]),
                     raw, i + 1)
            ELSE GroupByDocument(
                     [k \in 1..Len(acc) |->
                         IF k \in at
                         THEN [acc[k] EXCEPT !.indices = Append(@, i)]
                         ELSE acc[k]],
                     raw, i + 1)

\* indices.sort((a, b) => a - b)
RECURSIVE SortAscending(_)
SortAscending(s) ==
    IF s = <<>> THEN <<>>
    ELSE LET least == CHOOSE i \in 1..Len(s) : \A j \in 1..Len(s) : s[i] <= s[j]
         IN <<s[least]>>
               \o SortAscending([k \in 1..(Len(s) - 1) |->
                                   IF k < least THEN s[k] ELSE s[k + 1]])

\* slice(0, n)
Slice(s, n) == SubSeq(s, 1, IF Len(s) < n THEN Len(s) ELSE n)

\* the groups with their positions sorted
Grouped(raw) ==
    LET groups == GroupByDocument(<<>>, raw, 1)
    IN [k \in 1..Len(groups) |->
           [groups[k] EXCEPT !.indices = SortAscending(@)]]

\* handleSubmit: the sources of the previous answer are cleared and the
\* stream of the new one is opened
Submit ==
    /\ ~awaitingSources
    /\ awaitingSources' = TRUE
    /\ rawSources' = <<>>
    /\ streamSources' = <<>>

\* onmessage without the slice: every group is surfaced
OnSourcesUnsliced(data) ==
    /\ awaitingSources
    /\ awaitingSources' = FALSE
    /\ rawSources' = data
    /\ streamSources' = Grouped(data)

\* onmessage of { type: "sources", data }, the one sources event of a stream
OnSources(data) ==
    /\ awaitingSources
    /\ awaitingSources' = FALSE
    /\ rawSources' = data
    /\ streamSources' = Slice(Grouped(data), SurfacedLimit)

ClientQuiet ==
    /\ awaitingSources = FALSE
    /\ rawSources = <<>>
    /\ streamSources = <<>>

\* the side models at rest
SideQuiet == ConfigQuiet /\ DeleteQuiet /\ ClientQuiet

(***************************************************************************)
(* The specifications: one chat request, with the pipeline at rest, and    *)
(* the pipeline, with no chat request.                                     *)
(***************************************************************************)
\* the chat side before any request
ChatQuiet ==
    /\ teamId = NoTeam
    /\ kArg = Unset
    /\ history = <<>>
    /\ question = "q1"
    /\ collectionIds = {}
    /\ stored = EmptySettings
    /\ gpc = "created"
    /\ settings = EmptySettings
    /\ effectiveK = DefaultK
    /\ retrieved = <<>>
    /\ retrievedDocs = <<>>
    /\ emitted = <<>>
    /\ chatModelBuilt = FALSE
    /\ messages = <<>>
    /\ provider = "none"
    /\ deltas = <<>>
    /\ failure = "none"
    /\ hpc = "init"
    /\ written = <<>>
    /\ resEnded = FALSE
    /\ clientClosed = FALSE
    /\ afterClose = 0

\* the pipeline at rest: drafts only, nothing queued, nothing indexed
IndexQuiet ==
    /\ docs = [d \in DocIds |-> Draft]
    /\ clock = 0
    /\ events = {}
    /\ delayed = {}
    /\ workers = [w \in Workers |-> IdleWorker]
    /\ index = [d \in DocIds |-> <<>>]
    /\ last = NoLast
    /\ lastDone = NoLast
    /\ scheds = [d \in DocIds |-> 0]
    /\ lastSched = [d \in DocIds |-> 0]

ChatInit == ChatStart /\ IndexQuiet /\ StatusQuiet /\ SideQuiet
ChatNext ==
    \/ Begin /\ UNCHANGED notChat
    \/ LoadSettings /\ UNCHANGED notChat
    \/ Search /\ UNCHANGED notChat
    \/ AfterSources /\ UNCHANGED notChat
    \/ AfterSentinel /\ UNCHANGED notChat
    \/ AfterEmptyDone /\ UNCHANGED notChat
    \/ AfterDone /\ UNCHANGED notChat
    \/ StreamStart /\ UNCHANGED notChat
    \/ StreamNext /\ UNCHANGED notChat
    \/ Disconnect /\ UNCHANGED notChat
ChatSpec == ChatInit /\ [][ChatNext]_vars

IndexInit == IndexStart /\ ChatQuiet /\ StatusQuiet /\ SideQuiet
IndexNext ==
    \/ \E d \in DocIds : HostPublish(d) /\ UNCHANGED notIndex
    \/ \E d \in DocIds, c \in Contents : HostUpdate(d, c) /\ UNCHANGED notIndex
    \/ \E d \in DocIds : HostDelete(d) /\ UNCHANGED notIndex
    \/ \E d \in DocIds : HostArchive(d) /\ UNCHANGED notIndex
    \/ \E d \in DocIds, force \in BOOLEAN :
          HostIndexAll(d, force) /\ UNCHANGED notIndex
    \/ \E w \in Workers, e \in events : PerformIndex(w, e) /\ UNCHANGED notIndex
    \/ \E w \in Workers, e \in events : PerformUpdate(w, e) /\ UNCHANGED notIndex
    \/ \E w \in Workers : ScheduleDebounced(w) /\ UNCHANGED notIndex
    \/ \E w \in Workers, j \in delayed :
          PerformDebounced(w, j) /\ UNCHANGED notIndex
    \/ \E w \in Workers : IndexFind(w) /\ UNCHANGED notIndex
    \/ \E w \in Workers : IndexMeta(w) /\ UNCHANGED notIndex
    \/ \E w \in Workers : IndexRemove(w) /\ UNCHANGED notIndex
    \/ \E w \in Workers : IndexInsert(w) /\ UNCHANGED notIndex
    \/ \E w \in Workers, e \in events : PerformDelete(w, e) /\ UNCHANGED notIndex
IndexSpec == IndexInit /\ [][IndexNext]_vars

(***************************************************************************)
(* A burst of edits of a published document with a body, and nothing else: *)
(* the store and the embedding provider never fail, and the queue runs     *)
(* every event and every delayed job it holds (weak fairness of the        *)
(* processor's steps).                                                     *)
(***************************************************************************)
\* no step of a perform() has failed
NoFault ==
    /\ last.result # "raised"
    /\ ~last.removeFailed
    /\ \A w \in Workers : ~workers[w].removeFailed

\* the steps of the processor, none failing
SettleJobs ==
    \/ \E w \in Workers, e \in events : PerformUpdate(w, e) /\ UNCHANGED notIndex
    \/ \E w \in Workers : ScheduleDebounced(w) /\ UNCHANGED notIndex
    \/ \E w \in Workers, j \in delayed :
          PerformDebounced(w, j) /\ UNCHANGED notIndex
    \/ \E w \in Workers : IndexFind(w) /\ UNCHANGED notIndex
    \/ \E w \in Workers : IndexMeta(w) /\ NoFault' /\ UNCHANGED notIndex
    \/ \E w \in Workers : IndexRemove(w) /\ NoFault' /\ UNCHANGED notIndex
    \/ \E w \in Workers : IndexInsert(w) /\ NoFault' /\ UNCHANGED notIndex

SettleInit ==
    /\ IndexInit
    /\ \A d \in DocIds : docs[d] = Published

SettleNext ==
    \/ \E d \in DocIds, c \in Contents \ {0} :
          HostUpdate(d, c) /\ UNCHANGED notIndex
    \/ SettleJobs

SettleSpec == SettleInit /\ [][SettleNext]_vars /\ WF_vars(SettleJobs)

(***************************************************************************)
(* One perform() at a time, in which the queue may hand the settle event   *)
(* that completed last to perform() once more (a retry, a duplicate).      *)
(***************************************************************************)
\* the queue delivers again the settle event whose perform() completed
\* last; a delivery of the queue, it takes one tick as the host's events do
Redeliver ==
    /\ clock < MaxEvents
    /\ clock' = clock + 1
    /\ lastDone.event.name = "documents.update.debounced"
    /\ JobsOf(lastDone.event.documentId) = {}
    /\ \A w \in Workers : workers[w].pc = "idle"
    /\ delayed' = delayed \cup
                      {[jobId |-> JobId(lastDone.event), event |-> lastDone.event]}
    /\ last' = NoLast
    /\ UNCHANGED <<docs, events, workers, index, lastDone, scheds, lastSched>>

\* the one slot of a processor that runs its jobs one after the other
Serial == {1}

RetryInit == IndexInit
RetryNext ==
    \/ \E d \in DocIds : HostPublish(d) /\ UNCHANGED notIndex
    \/ \E d \in DocIds, c \in Contents : HostUpdate(d, c) /\ UNCHANGED notIndex
    \/ \E d \in DocIds : HostDelete(d) /\ UNCHANGED notIndex
    \/ \E d \in DocIds : HostArchive(d) /\ UNCHANGED notIndex
    \/ \E d \in DocIds, force \in BOOLEAN :
          HostIndexAll(d, force) /\ UNCHANGED notIndex
    \/ Redeliver /\ UNCHANGED notIndex
    \/ \E w \in Serial, e \in events : PerformIndex(w, e) /\ UNCHANGED notIndex
    \/ \E w \in Serial, e \in events : PerformUpdate(w, e) /\ UNCHANGED notIndex
    \/ \E w \in Serial : ScheduleDebounced(w) /\ UNCHANGED notIndex
    \/ \E w \in Serial, j \in delayed :
          PerformDebounced(w, j) /\ UNCHANGED notIndex
    \/ \E w \in Serial : IndexFind(w) /\ UNCHANGED notIndex
    \/ \E w \in Serial : IndexMeta(w) /\ UNCHANGED notIndex
    \/ \E w \in Serial : IndexRemove(w) /\ UNCHANGED notIndex
    \/ \E w \in Serial : IndexInsert(w) /\ UNCHANGED notIndex
    \/ \E w \in Serial, e \in events : PerformDelete(w, e) /\ UNCHANGED notIndex
RetrySpec == RetryInit /\ [][RetryNext]_vars

(***************************************************************************)
(* The pipeline with nothing failing (no store, lookup or provider error,  *)
(* no removal failure): with two perform() at a time, and with one.        *)
(***************************************************************************)
RaceInit == IndexInit
RaceNext ==
    \/ \E d \in DocIds : HostPublish(d) /\ UNCHANGED notIndex
    \/ \E d \in DocIds, c \in Contents : HostUpdate(d, c) /\ UNCHANGED notIndex
    \/ \E d \in DocIds : HostDelete(d) /\ UNCHANGED notIndex
    \/ \E d \in DocIds : HostArchive(d) /\ UNCHANGED notIndex
    \/ \E d \in DocIds, force \in BOOLEAN :
          HostIndexAll(d, force) /\ UNCHANGED notIndex
    \/ \E w \in Workers, e \in events : PerformIndex(w, e) /\ UNCHANGED notIndex
    \/ \E w \in Workers, e \in events :
          PerformDelete(w, e) /\ NoFault' /\ UNCHANGED notIndex
    \/ SettleJobs
RaceSpec == RaceInit /\ [][RaceNext]_vars

SerialInit == IndexInit
SerialNext ==
    \/ \E d \in DocIds : HostPublish(d) /\ UNCHANGED notIndex
    \/ \E d \in DocIds, c \in Contents : HostUpdate(d, c) /\ UNCHANGED notIndex
    \/ \E d \in DocIds : HostDelete(d) /\ UNCHANGED notIndex
    \/ \E d \in DocIds : HostArchive(d) /\ UNCHANGED notIndex
    \/ \E d \in DocIds, force \in BOOLEAN :
          HostIndexAll(d, force) /\ UNCHANGED notIndex
    \/ \E w \in Serial, e \in events : PerformIndex(w, e) /\ UNCHANGED notIndex
    \/ \E w \in Serial, e \in events : PerformUpdate(w, e) /\ UNCHANGED notIndex
    \/ \E w \in Serial : ScheduleDebounced(w) /\ UNCHANGED notIndex
    \/ \E w \in Serial, j \in delayed :
          PerformDebounced(w, j) /\ UNCHANGED notIndex
    \/ \E w \in Serial : IndexFind(w) /\ UNCHANGED notIndex
    \/ \E w \in Serial : IndexMeta(w) /\ NoFault' /\ UNCHANGED notIndex
    \/ \E w \in Serial : IndexRemove(w) /\ NoFault' /\ UNCHANGED notIndex
    \/ \E w \in Serial : IndexInsert(w) /\ NoFault' /\ UNCHANGED notIndex
    \/ \E w \in Serial, e \in events :
          PerformDelete(w, e) /\ NoFault' /\ UNCHANGED notIndex
SerialSpec == SerialInit /\ [][SerialNext]_vars

(***************************************************************************)
(* The pipeline of a team that has stored no embedding key: a published    *)
(* and indexed document is edited and reindexed, one perform() at a time;  *)
(* nothing fails but the construction of the embedding client.             *)
(***************************************************************************)
KeylessInit ==
    /\ IndexInit
    /\ ~stored.RAG_OPENAI_API_KEY
    /\ \A d \in DocIds : docs[d] = Published /\ index[d] = Split(Snap(d))
KeylessNext ==
    \/ \E d \in DocIds, c \in Contents : HostUpdate(d, c) /\ UNCHANGED notIndex
    \/ \E d \in DocIds, force \in BOOLEAN :
          HostIndexAll(d, force) /\ UNCHANGED notIndex
    \/ \E w \in Serial, e \in events : PerformIndex(w, e) /\ UNCHANGED notIndex
    \/ \E w \in Serial, e \in events : PerformUpdate(w, e) /\ UNCHANGED notIndex
    \/ \E w \in Serial : ScheduleDebounced(w) /\ UNCHANGED notIndex
    \/ \E w \in Serial, j \in delayed :
          PerformDebounced(w, j) /\ UNCHANGED notIndex
    \/ \E w \in Serial : IndexFind(w) /\ UNCHANGED notIndex
    \/ \E w \in Serial : IndexMeta(w) /\ NoFault' /\ UNCHANGED notIndex
    \/ \E w \in Serial : IndexRemove(w) /\ NoFault' /\ UNCHANGED notIndex
    \/ \E w \in Serial : IndexInsertKeyless(w) /\ UNCHANGED notIndex
KeylessSpec == KeylessInit /\ [][KeylessNext]_vars

(***************************************************************************)
(* The retrieval of streamAnswer taken alone: the settings are loaded, the *)
(* provider answers a result list, the two filters run and the sources are *)
(* yielded.                                                                *)
(***************************************************************************)
\* distances in tenths, among them the default threshold itself
FineScores == {1, 3, 4, 5, 7}

\* what the provider can answer: nearest first, chunks of the team, the
\* collection filter ignored
RetrievalResults ==
    {r \in SeqsUpTo([collectionId : CollectionIds, score : FineScores,
                     teamId : {teamId}, pageContent : {"p1"}],
                    MaxRetrieved) :
        \A i \in 1..(Len(r) - 1) : r[i].score <= r[i + 1].score}

\* streamAnswer at its search, the team's settings loaded: one of thresholds
\* is the team's saved RAG_SCORE_THRESHOLD
AtSearch(thresholds) ==
    /\ IndexQuiet
    /\ StatusQuiet
    /\ SideQuiet
    /\ teamId \in TeamIds
    /\ kArg = Unset
    /\ history = <<>>
    /\ question = "q1"
    /\ collectionIds \in {{}, {"c1"}}
    /\ stored \in [RAG_OPENAI_API_KEY : {TRUE}, RAG_CHAT_API_KEY : {TRUE},
                    RAG_RETRIEVAL_K : {Unset},
                    RAG_SCORE_THRESHOLD : thresholds]
    /\ gpc = "search"
    /\ settings = stored
    /\ effectiveK = DefaultK
    /\ retrieved = <<>>
    /\ retrievedDocs = <<>>
    /\ emitted = <<>>
    /\ chatModelBuilt = FALSE
    /\ messages = <<>>
    /\ provider = "none"
    /\ deltas = <<>>
    /\ failure = "none"
    /\ hpc = "pull"
    /\ written = <<>>
    /\ resEnded = FALSE
    /\ clientClosed = FALSE
    /\ afterClose = 0

RetrievalInit == AtSearch({Unset, 2})

\* the search answers and the filters run
Retrieve ==
    /\ hpc = "pull" /\ gpc = "search"
    /\ \E res \in RetrievalResults :
          /\ Len(res) <= effectiveK
          /\ YieldSources(res)
    /\ UNCHANGED <<teamId, kArg, history, question,
                   collectionIds, stored, settings, effectiveK,
                   chatModelBuilt, messages, provider, deltas, failure, clientClosed,
                   afterClose>>

RetrievalNext == Retrieve /\ UNCHANGED notChat
RetrievalSpec == RetrievalInit /\ [][RetrievalNext]_vars

(***************************************************************************)
(* The retrieval with any value rag.settings.set can have saved as the     *)
(* threshold: the schema types it z.any(), and the settings form posts the *)
(* text of its field.                                                      *)
(***************************************************************************)
SavedThresholds == {Unset, 2, 0, Blank, NonNumeric}
ThresholdInit == AtSearch(SavedThresholds)
ThresholdNext == Retrieve /\ UNCHANGED notChat
ThresholdSpec == ThresholdInit /\ [][ThresholdNext]_vars

(***************************************************************************)
(* The prompt of streamAnswer taken alone: the search answers chunks with  *)
(* their texts, the filters run, and the messages are built from the kept  *)
(* results, the request's history and its question.                        *)
(***************************************************************************)
\* the texts a chunk can carry
PageContents == {"p1", "p2"}

\* the histories of a request: role and content of each prior message
Histories ==
    SeqsUpTo([role : {"user", "assistant"}, content : {"h1", "h2"}],
             MaxHistory)

\* what the provider can answer: nearest first, chunks of the team
PromptResults ==
    {r \in SeqsUpTo([collectionId : CollectionIds, score : Scores,
                     teamId : {teamId}, pageContent : PageContents],
                    MaxResults) :
        \A i \in 1..(Len(r) - 1) : r[i].score <= r[i + 1].score}

\* streamAnswer at its search, the team's settings loaded
PromptInit ==
    /\ IndexQuiet
    /\ StatusQuiet
    /\ SideQuiet
    /\ teamId \in TeamIds
    /\ kArg = Unset
    /\ history \in Histories
    /\ question \in {"q1", "q2"}
    /\ collectionIds \in {{}, {"c1"}}
    /\ stored \in {s \in SettingsSpace :
                      /\ s.RAG_OPENAI_API_KEY /\ s.RAG_CHAT_API_KEY
                      /\ s.RAG_RETRIEVAL_K = Unset}
    /\ gpc = "search"
    /\ settings = stored
    /\ effectiveK = DefaultK
    /\ retrieved = <<>>
    /\ retrievedDocs = <<>>
    /\ emitted = <<>>
    /\ chatModelBuilt = FALSE
    /\ messages = <<>>
    /\ provider = "none"
    /\ deltas = <<>>
    /\ failure = "none"
    /\ hpc = "pull"
    /\ written = <<>>
    /\ resEnded = FALSE
    /\ clientClosed = FALSE
    /\ afterClose = 0

\* the search answers and the filters run
PromptRetrieve ==
    /\ hpc = "pull" /\ gpc = "search"
    /\ \E res \in PromptResults :
          /\ Len(res) <= effectiveK
          /\ YieldSources(res)
    /\ UNCHANGED <<teamId, kArg, history, question, collectionIds, stored,
                   settings, effectiveK, chatModelBuilt, messages, provider,
                   deltas, failure, clientClosed, afterClose>>

PromptNext ==
    \/ PromptRetrieve /\ UNCHANGED notChat
    \/ AfterSources /\ UNCHANGED notChat
PromptSpec == PromptInit /\ [][PromptNext]_vars

(***************************************************************************)
(* The chunking configuration taken alone: an admin saves settings, the    *)
(* pipeline indexes a document of the team.                                *)
(***************************************************************************)
ConfigInit == SideQuiet /\ ChatQuiet /\ IndexQuiet /\ StatusQuiet
ConfigNext ==
    \/ \E isAdmin \in BOOLEAN, body \in ChunkSettings :
          SettingsSet(isAdmin, body) /\ UNCHANGED notConfig
    \/ ResolveSplitter /\ UNCHANGED notConfig
ConfigSpec == ConfigInit /\ [][ConfigNext]_vars

(***************************************************************************)
(* rag.delete taken alone: users of either team delete by document id.     *)
(***************************************************************************)
DeleteInit ==
    /\ DeleteStart /\ ConfigQuiet /\ ClientQuiet
    /\ ChatQuiet /\ IndexQuiet /\ StatusQuiet
DeleteNext ==
    \E userTeam \in ChunkTeamIds, documentId \in VectorDocIds, ok \in BOOLEAN :
        RagDelete(userTeam, documentId, ok) /\ UNCHANGED notDelete
DeleteSpec == DeleteInit /\ [][DeleteNext]_vars

(***************************************************************************)
(* The client's handling of the sources event taken alone.                 *)
(***************************************************************************)
ClientInit == SideQuiet /\ ChatQuiet /\ IndexQuiet /\ StatusQuiet
ClientNext ==
    \/ Submit /\ UNCHANGED notClient
    \/ \E data \in SourceLists : OnSources(data) /\ UNCHANGED notClient
ClientSpec == ClientInit /\ [][ClientNext]_vars

(***************************************************************************)
(* The aggregation taken alone: one rag.documents request.                 *)
(***************************************************************************)
StatusInit == StatusStart /\ ChatQuiet /\ IndexQuiet /\ SideQuiet
StatusNext ==
    \/ ScanGlobal /\ UNCHANGED notStatus
    \/ ScanProcessor /\ UNCHANGED notStatus
    \/ ScanRetrying /\ UNCHANGED notStatus
    \/ ScanFailed /\ UNCHANGED notStatus
    \/ Report /\ UNCHANGED notStatus
StatusSpec == StatusInit /\ [][StatusNext]_vars

(***************************************************************************)
(* The claims about the chat stream.                                       *)
(***************************************************************************)
Last(s) == s[Len(s)]

\* s is sources (chunk)*
IsOpenStream(s) ==
    /\ Len(s) >= 1
    /\ s[1].type = "sources"
    /\ \A i \in 2..Len(s) : s[i].type = "chunk"

\* s is sources (chunk)* t with t one of the terminal types
IsTerminatedStream(s, terminals) ==
    /\ Len(s) >= 2
    /\ IsOpenStream(SubSeq(s, 1, Len(s) - 1))
    /\ Last(s).type \in terminals

PreSourceFailures == {"init", "embedKey", "embed", "search"}
PostSourceFailures == {"chatKey", "streamStart", "stream"}

\* C1 (as stated): every streamAnswer invocation pulled to completion has
\* emitted sources (chunk)* followed by exactly one done or error.
C1_Original ==
    gpc \in {"returned", "thrown"} => IsTerminatedStream(emitted, {"done", "error"})

\* C1 (amended): streamAnswer never emits an error event; at every moment
\* what it has emitted is empty, sources (chunk)* or sources (chunk)* done;
\* a call that returns has emitted sources (chunk)* done, and a call that
\* throws has emitted nothing or sources (chunk)* with no terminal event.
C1_EventOrder ==
    /\ \A i \in 1..Len(emitted) : emitted[i].type # "error"
    /\ \/ emitted = <<>>
       \/ IsOpenStream(emitted)
       \/ IsTerminatedStream(emitted, {"done"})
    /\ gpc = "returned" => IsTerminatedStream(emitted, {"done"})
    /\ gpc = "thrown" => (emitted = <<>> \/ IsOpenStream(emitted))

C1_Witness ==
    /\ gpc = "returned"
    /\ Len(emitted) = 4
    /\ emitted[2].type = "chunk" /\ emitted[3].type = "chunk"

\* C2 (as stated): a failure after the sources were emitted does not make
\* streamAnswer throw; it emits an error event, so that the emitted sequence
\* is sources (chunk)* error.
C2_Original ==
    failure \in PostSourceFailures =>
        /\ gpc # "thrown"
        /\ IsTerminatedStream(emitted, {"error"})

\* C2 (amended): a failure after the sources were emitted is rethrown by
\* streamAnswer, which has then emitted sources (chunk)* and no terminal
\* event; the rag.chat.stream handler catches it and, the connection being
\* open, writes the error event, so that what the client receives is
\* sources (chunk)* error.
C2_RethrownThenWritten ==
    failure \in PostSourceFailures =>
        /\ gpc = "thrown"
        /\ IsOpenStream(emitted)
        /\ hpc = "finished"
        /\ ~clientClosed =>
              /\ Len(written) = Len(emitted) + 1
              /\ SubSeq(written, 1, Len(emitted)) = emitted
              /\ Last(written) = ErrorEvent(failure)

C2_Witness ==
    /\ failure = "stream"
    /\ ~clientClosed
    /\ Len(emitted) = 2
    /\ Len(written) = 3

\* C3: when the handler has finished and the client never closed the
\* connection, the last data event written is a done or an error, and it is
\* the only terminal event written.
C3_TerminatedOnce ==
    (hpc = "finished" /\ ~clientClosed) =>
        /\ Len(written) >= 1
        /\ Last(written).type \in {"done", "error"}
        /\ \A i \in 1..(Len(written) - 1) : written[i].type \notin {"done", "error"}

C3_Witness ==
    /\ hpc = "finished"
    /\ ~clientClosed
    /\ failure = "streamStart"
    /\ Len(written) = 2
    /\ written[2].type = "error"

\* C4: a failure before the sources (the pool, the missing embedding key,
\* the query embedding, the similarity query) is thrown by streamAnswer,
\* which has then emitted no event at all.
C4_ThrownBeforeSources ==
    failure \in PreSourceFailures => (gpc = "thrown" /\ emitted = <<>>)

C4_Witness ==
    /\ failure = "embedKey"
    /\ gpc = "thrown"
    /\ teamId # NoTeam

\* the three events of the empty path
EmptyAnswer ==
    <<SourcesEvent(<<>>), ChunkEvent(NoRelevantDocuments), DoneEvent>>

\* C5: once the sources were emitted with nothing left after the filters,
\* the generator emits the sentinel chunk and done and nothing else, never
\* builds the chat model, never opens a provider stream and never throws,
\* whether or not a chat key is configured.
C5_EmptyRetrieval ==
    (Len(emitted) >= 1 /\ retrievedDocs = <<>>) =>
        /\ ~chatModelBuilt
        /\ provider = "none"
        /\ gpc # "thrown"
        /\ Len(emitted) <= 3
        /\ \A i \in 1..Len(emitted) : emitted[i] = EmptyAnswer[i]
        /\ gpc = "returned" => emitted = EmptyAnswer

C5_Witness ==
    /\ gpc = "returned"
    /\ retrievedDocs = <<>>
    /\ ~ChatApiKey(settings)
    /\ emitted = EmptyAnswer
    /\ written = EmptyAnswer

\* C6 (as stated): the disconnect itself cancels the provider's stream,
\* without waiting for another delta, so no provider delta is consumed once
\* the client has closed the connection.
C6_NoDeltaAfterDisconnect ==
    clientClosed => afterClose = 0

(***************************************************************************)
(* The claims about the indexing pipeline.  `last` is the perform() that   *)
(* completed in the step that led to the state, so a formula about `last`  *)
(* speaks of the moment a perform() completes.                             *)
(***************************************************************************)
\* the document is as the perform() that just completed read it
UnchangedSinceRead(d) ==
    /\ docs[d].exists /\ docs[d].published
    /\ Snap(d) = last.snap

\* C7 (as stated, in the case it names: the content is now empty): when a
\* reindex of D completes without raising and D's content is empty, the
\* index holds no chunk of D.
C7_EmptiedHasNoChunks ==
    (last.result = "skippedEmpty" /\ UnchangedSinceRead(last.event.documentId))
        => index[last.event.documentId] = <<>>

\* C8 (as stated, in the case it names: the pre-insert removal failed): when
\* a reindex of D has inserted its new chunk set, the chunks of D are that
\* set and nothing else.
C8_NoMixtureWhenRemovalFails ==
    (last.result = "indexed" /\ last.removeFailed)
        => index[last.event.documentId] = Split(last.snap)

\* C9: however many update events of a published document were scheduled
\* while its settle job is pending, the document has exactly one delayed
\* job, an update.debounced event under the key rag-index-<documentId>; a
\* document with no scheduling since its job fired has none.
C9_OneSettleJob ==
    \A d \in DocIds :
        /\ scheds[d] = 0 => JobsOf(d) = {}
        /\ scheds[d] >= 1 =>
              /\ Cardinality(JobsOf(d)) = 1
              /\ \A j \in JobsOf(d) :
                    /\ j.jobId = <<"rag-index", d>>
                    /\ j.event.name = "documents.update.debounced"

C9_Witness ==
    \E d \in DocIds :
        /\ scheds[d] = 2
        /\ Cardinality(JobsOf(d)) = 1

Settled ==
    /\ events = {}
    /\ delayed = {}
    /\ \A w \in Workers : workers[w].pc = "idle"

\* the index holds chunks of d and they carry d's current updatedAt
HoldsCurrent(d) ==
    /\ index[d] # <<>>
    /\ \A i \in 1..Len(index[d]) : index[d][i].updatedAt = docs[d].updatedAt

\* C11 (as stated): after a burst of update events of a published document
\* with a body, once nothing is left to run and nothing has failed, the
\* index holds chunks of the document that carry its final updatedAt.
C11_SettledContentIndexed ==
    \A d \in DocIds :
        (Settled /\ docs[d].updatedAt >= 1) => HoldsCurrent(d)

\* the settle job drops: the document is gone, unpublished, or newer than
\* the event
SettleDrops(e) ==
    LET d == e.documentId IN
    \/ ~docs[d].exists
    \/ ~docs[d].published
    \/ docs[d].updatedAt > e.createdAt

\* C12: the step in which a delayed job fires leaves the index as it is;
\* when the document is gone, unpublished, or its updatedAt is newer than
\* the event's createdAt, the perform() ends in that step (it goes on to no
\* index read or write); in all other cases the perform() goes on to
\* indexDocument for the event's document.
C12_SettleDropsOrReindexes ==
    [][\A j \in delayed :
          (delayed' = delayed \ {j}) =>
              /\ index' = index
              /\ IF SettleDrops(j.event)
                 THEN /\ workers' = workers
                      /\ last'.event = j.event
                      /\ last'.result \in {"dropped", "superseded"}
                 ELSE \E w \in Workers :
                         /\ workers[w].pc = "idle"
                         /\ workers'[w].pc = "find"
                         /\ workers'[w].event = j.event]_vars

C12_Witness ==
    /\ last.event.name = "documents.update.debounced"
    /\ last.result = "superseded"
    /\ docs[last.event.documentId].updatedAt > last.event.createdAt
    /\ index[last.event.documentId] # <<>>

\* C13: the step in which perform() takes an update event of a document
\* that is unpublished or gone ends the perform() there: no delayed job is
\* added or replaced, no event is queued, and the index is left as it is.
C13_UnpublishedUpdateDropped ==
    [][\A e \in events :
          (/\ e.name = "documents.update"
           /\ events' = events \ {e}
           /\ ~docs[e.documentId].exists \/ ~docs[e.documentId].published) =>
              /\ delayed' = delayed
              /\ index' = index
              /\ workers' = workers
              /\ last'.event = e
              /\ last'.result = "dropped"]_vars

C13_Witness ==
    /\ last.event.name = "documents.update"
    /\ last.result = "dropped"
    /\ docs[last.event.documentId].exists
    /\ ~docs[last.event.documentId].published
    /\ delayed = {}

\* the rows of d that carry an updatedAt not older than the document's, as
\* the reindex read it
FreshRows(d, snap) ==
    {i \in 1..Len(index[d]) :
        index[d][i].updatedAt # Unset /\ index[d][i].updatedAt >= snap.updatedAt}

\* C14: a reindex that reaches the staleness decision (the document is
\* published and has a body) consults the index exactly when it is not
\* forced.  A forced one goes straight on to the removal.  A non-forced one
\* whose lookup answers is skipped, with the index untouched, only with an
\* indexed row of the document that carries an updatedAt not older than
\* the document's, and goes on to the removal only with no row at all or
\* with a row whose updatedAt is older; so with the rows of the document
\* all of one version, it is skipped if and only if that version is not
\* older than the document.
C14_StalenessDecision ==
    [][\A w \in Workers :
          LET e == workers[w].event
              d == e.documentId
              snap == workers[w].snap
              skipped == /\ workers'[w].pc = "idle"
                         /\ last'.event = e
                         /\ last'.result = "upToDate"
              proceeds == /\ workers'[w].pc = "remove"
                          /\ workers'[w].event = e
          IN /\ (workers[w].pc \in {"idle", "find"}
                   /\ workers'[w].pc \in {"meta", "remove"}) =>
                    /\ index' = index
                    /\ workers'[w].pc = "remove" <=> workers'[w].event.force
             /\ (workers[w].pc = "meta" /\ workers'[w] # workers[w]
                   /\ last'.result # "raised") =>
                    /\ ~e.force
                    /\ index' = index
                    /\ skipped \/ proceeds
                    /\ skipped => FreshRows(d, snap) # {}
                    /\ proceeds =>
                          FreshRows(d, snap) # 1..Len(index[d]) \/ index[d] = <<>>]_vars

C14_Witness ==
    /\ last.result = "upToDate"
    /\ last.event.name = "documents.index"
    /\ ~last.event.force
    /\ HoldsCurrent(last.event.documentId)
    /\ docs[last.event.documentId].updatedAt >= 1

\* the rows of d are all of one version
OneVersion(d) ==
    \A i, j \in 1..Len(index[d]) : index[d][i].updatedAt = index[d][j].updatedAt

\* the step is one of the perform() in slot w: it goes on or ends there, or
\* it starts in the free slot and ends at once
StepOf(w) ==
    \/ workers'[w] # workers[w]
    \/ /\ workers' = workers
       /\ last'.result # "none"
       /\ IdleSlot(w)

\* the events whose perform() calls indexDocument
ReindexEvents ==
    {"documents.publish", "documents.index", "documents.update.debounced"}

\* the event of the perform() that makes a step in slot w
StepEvent(w) ==
    IF workers'[w].pc = "idle" THEN last'.event ELSE workers'[w].event

C16_ImmediateReindex ==
    [][\A w \in Workers :
          (StepOf(w)
            /\ StepEvent(w).name \in {"documents.publish", "documents.index"}) =>
              /\ delayed' = delayed
              /\ scheds' = scheds
              /\ last'.result \notin {"scheduled", "dropped", "superseded"}
              /\ workers[w].pc = "idle" =>
                    \/ /\ workers'[w].pc \in {"meta", "remove"}
                       /\ workers'[w].snap = Snap(StepEvent(w).documentId)
                    \/ last'.result \in {"skippedUnpublished", "skippedEmpty"}]_vars

C16_Witness ==
    /\ last.event.name = "documents.publish"
    /\ last.result = "indexed"
    /\ docs[last.event.documentId].updatedAt > last.event.createdAt
    /\ delayed = {}

\* C17: the perform() of a delete or archive event ends in the step that
\* takes the event and never raises; when the removal went through, the
\* document has no row left and the rows of the other documents are as they
\* were; when it failed, the index is as it was.
C17_RemovalNeverRaises ==
    [][\A w \in Workers :
          (StepOf(w)
            /\ StepEvent(w).name \in {"documents.delete", "documents.archive"}) =>
              /\ workers' = workers
              /\ last'.result = "removed"
              /\ IF last'.removeFailed
                 THEN index' = index
                 ELSE index' =
                         [index EXCEPT ![StepEvent(w).documentId] = <<>>]]_vars

C17_Witness ==
    /\ last.event.name = "documents.archive"
    /\ last.result = "removed"
    /\ last.removeFailed
    /\ index[last.event.documentId] # <<>>

\* C18: with one perform() at a time.  The insert of a reindex ends the
\* perform() as indexed, the chunk set added, or as raised, the index as it
\* was: a failed insert is never a normal completion; after a removal that
\* went through, the failed insert leaves the document with no row.  The
\* reindex that follows a raised one of a document left with no row, forced
\* or not, is not skipped as up to date: its staleness check sends it on to
\* the removal (or the lookup rejects), and when its insert goes through
\* the rows of the document are the chunk set of the document as it read it.
C18_InsertFailureSurfaced ==
    [][\A w \in Workers :
          LET e == workers[w].event
              d == e.documentId
              snap == workers[w].snap
          IN /\ (workers[w].pc = "insert" /\ StepOf(w)) =>
                    /\ workers'[w].pc = "idle"
                    /\ last'.event = e
                    /\ last'.result \in {"indexed", "raised"}
                    /\ last'.result = "indexed" <=>
                          index' = [index EXCEPT ![d] = @ \o Split(snap)]
                    /\ last'.result = "raised" <=> index' = index
                    /\ (last'.result = "raised" /\ ~workers[w].removeFailed) =>
                          index'[d] = <<>>
             /\ (workers[w].pc = "meta" /\ StepOf(w)
                   /\ lastDone.result = "raised"
                   /\ lastDone.event.documentId = d
                   /\ index[d] = <<>>) =>
                    \/ workers'[w].pc = "remove"
                    \/ last'.result = "raised"
             /\ (workers[w].pc = "insert" /\ StepOf(w)
                   /\ lastDone.result = "raised"
                   /\ lastDone.event.documentId = d
                   /\ ~workers[w].removeFailed
                   /\ last'.result = "indexed") =>
                    index'[d] = Split(snap)]_vars

\* the reindex after a raised one is at its insert, the document without rows
C18_Witness ==
    \E w \in Workers :
        /\ workers[w].pc = "insert"
        /\ ~workers[w].event.force
        /\ ~workers[w].removeFailed
        /\ lastDone.result = "raised"
        /\ ~lastDone.removeFailed
        /\ lastDone.event.force
        /\ lastDone.snap = workers[w].snap
        /\ index[workers[w].event.documentId] = <<>>

\* the step of slot w is the first step of indexDocument: the perform() of
\* a publish or index event starts, or the perform() of a settle event is
\* past its drops
CallsIndexDocument(w) ==
    /\ StepOf(w)
    /\ \/ /\ workers[w].pc = "idle"
          /\ StepEvent(w).name \in {"documents.publish", "documents.index"}
       \/ workers[w].pc = "find"

\* C25: indexDocument called, forced or not, for a published document whose
\* body is empty ends in its first step, as skipped and not as raised, and
\* that step leaves the index and the queue as they are: it goes on to no
\* metadata lookup, no removal and no insert.
C25_EmptyBodySkipped ==
    [][\A w \in Workers :
          (/\ CallsIndexDocument(w)
           /\ docs[StepEvent(w).documentId].exists
           /\ docs[StepEvent(w).documentId].published
           /\ docs[StepEvent(w).documentId].content = 0) =>
              /\ workers'[w].pc = "idle"
              /\ last'.event = StepEvent(w)
              /\ last'.result = "skippedEmpty"
              /\ index' = index
              /\ delayed' = delayed]_vars

\* a forced reindex of an emptied document has ended, the chunks of the
\* earlier body in place
C25_Witness ==
    /\ last.result = "skippedEmpty"
    /\ last.event.force
    /\ docs[last.event.documentId].content = 0
    /\ index[last.event.documentId] # <<>>

\* the rows of d are one chunk set: those one reindex adds, and no others
OneChunkSet(d) ==
    \/ index[d] = <<>>
    \/ index[d] = Split([content |-> index[d][1].content,
                         updatedAt |-> index[d][1].updatedAt])

\* C27 (as stated): with nothing failing and two perform() at a time, once
\* nothing is left to run the rows of every document are the chunk set one
\* reindex alone adds: no chunk is there twice.
C27_NoDuplicateChunks ==
    Settled => \A d \in DocIds : OneChunkSet(d)

\* C28 (as stated): with nothing failing and two perform() at a time, once
\* nothing is left to run a deleted document has no chunk in the index.
C28_DeletedHasNoChunks ==
    Settled => \A d \in DocIds : ~docs[d].exists => index[d] = <<>>

\* C29 (as stated): with nothing failing and one perform() at a time, once
\* nothing is left to run the index holds chunks only of documents that
\* exist, are published and are not archived.
C29_OnlyLivePublishedIndexed ==
    Settled =>
        \A d \in DocIds :
            index[d] # <<>> =>
                docs[d].exists /\ docs[d].published /\ ~docs[d].archived

\* C30 (as stated): for a team without an embedding key, when a reindex
\* attempt has failed with the configuration error the chunks of the
\* document are those that were indexed before it: the error is raised
\* before any chunk is deleted.  (No document is deleted or archived and no
\* insert goes through, so these are the chunks indexed at the start.)
C30_ConfigErrorKeepsChunks ==
    \A d \in DocIds :
        (last.result = "raised" /\ last.event.documentId = d) =>
            index[d] = Split([content |-> Published.content,
                              updatedAt |-> Published.updatedAt])

(***************************************************************************)
(* The claims about the retrieval filters.                                 *)
(***************************************************************************)
\* the sources were yielded
Retrieved == Len(emitted) >= 1

\* the scores of a result list
ScoresOf(results) == [i \in 1..Len(results) |-> results[i].score]

\* C19 (as stated): with no collection filter, the results kept are those
\* whose distance does not exceed the threshold.
C19_Original ==
    (Retrieved /\ collectionIds = {}) =>
        retrievedDocs =
            SelectSeq(retrieved, LAMBDA r : ~(r.score > ScoreThreshold(settings)))

\* C19 (amended): with no collection filter, the results kept are, in the
\* provider's order, those whose distance is strictly under the threshold:
\* a result whose distance equals the threshold is removed with those over
\* it.  For the distances 0.1, 0.3, 0.5, 0.7 and the threshold 0.4 the
\* first two are kept.
C19_StrictlyUnderThreshold ==
    (Retrieved /\ collectionIds = {}) =>
        /\ \A i \in 1..Len(retrievedDocs) :
              retrievedDocs[i].score < ScoreThreshold(settings)
        /\ retrievedDocs =
              SelectSeq(retrieved, LAMBDA r : ~(r.score >= ScoreThreshold(settings)))
        /\ (ScoresOf(retrieved) = <<1, 3, 5, 7>> /\ ScoreThreshold(settings) = 4) =>
              retrievedDocs = SubSeq(retrieved, 1, 2)

C19_Witness ==
    /\ Retrieved
    /\ collectionIds = {}
    /\ ScoresOf(retrieved) = <<1, 3, 5, 7>>
    /\ ScoreThreshold(settings) = 4
    /\ ScoresOf(retrievedDocs) = <<1, 3>>
    /\ emitted[1] = SourcesEvent(retrievedDocs)

\* C20: with a non-empty collection filter, every source of the sources
\* event and every result kept as context is of a collection of the filter,
\* whatever the provider answered.
C20_SourcesInFilter ==
    (Retrieved /\ collectionIds # {}) =>
        /\ \A i \in 1..Len(retrievedDocs) :
              retrievedDocs[i].collectionId \in collectionIds
        /\ \A n \in 1..Len(emitted) :
              emitted[n].type = "sources" =>
                 \A i \in 1..Len(emitted[n].data) :
                    emitted[n].data[i].collectionId \in collectionIds

C20_Witness ==
    /\ Retrieved
    /\ collectionIds = {"c1"}
    /\ \E i \in 1..Len(retrieved) :
          /\ retrieved[i].collectionId = "c2"
          /\ retrieved[i].score < ScoreThreshold(settings)
    /\ Len(retrievedDocs) >= 1
    /\ emitted[1] = SourcesEvent(retrievedDocs)

\* C21 (as stated): for a request of team T, every source of the sources
\* event and every result kept as context is a chunk whose metadata.teamId
\* is T, whatever the provider answered.
C21_NoForeignTenantChunk ==
    (Retrieved /\ teamId # NoTeam) =>
        /\ \A i \in 1..Len(retrievedDocs) : retrievedDocs[i].teamId = teamId
        /\ \A n \in 1..Len(emitted) :
              emitted[n].type = "sources" =>
                 \A i \in 1..Len(emitted[n].data) :
                    emitted[n].data[i].teamId = teamId

\* C22 (as stated, its second half): a request of a team whose stored
\* settings hold the embedding key and a chat key never fails for a missing
\* key: when a settings lookup raises, the operation goes on with defaults
\* and completes.  (With the keys stored, a key is missing only after a
\* lookup that raised and answered the empty override set.)
C22_LookupFailureDegrades ==
    (teamId # NoTeam /\ stored.RAG_OPENAI_API_KEY /\ ChatApiKey(stored)) =>
        failure \notin {"embedKey", "chatKey"}

NoStatuses == [d \in StatusDocIds |-> NoStatus]

\* what each scan makes of the queues when it runs on an empty map
GlobalAlone ==
    ScanGlobalJobs(NoStatuses,
                   queues["globalActive"] \o queues["globalDelayed"]
                       \o queues["globalWaiting"])
ProcessorAlone ==
    ScanProcessorJobs(NoStatuses,
                      queues["processorActive"] \o queues["processorWaiting"],
                      "indexing")
RetryingAlone ==
    ScanProcessorJobs(NoStatuses, queues["processorDelayed"], "retrying")
FailedAlone == ScanFailedJobs(NoStatuses, queues["processorFailed"])

\* the entry the first scan that classifies d gives it
FirstClassification(d) ==
    IF Has(GlobalAlone, d) THEN GlobalAlone[d]
    ELSE IF Has(ProcessorAlone, d) THEN ProcessorAlone[d]
    ELSE IF Has(RetryingAlone, d) THEN RetryingAlone[d]
    ELSE FailedAlone[d]

\* C23 (as stated): the scans run in the order lifecycle queue, processor
\* active and waiting, processor delayed, processor failed, and when they
\* are done every document has the entry the first scan that classified it
\* gave it: no later scan has overwritten it.
C23_FirstClassificationWins ==
    statusPc = "done" =>
        \A d \in StatusDocIds : indexingDocs[d] = FirstClassification(d)

\* d has a job that one of the first three scans classifies: an
\* update.debounced, publish or index event in the lifecycle queue, or a
\* publish, update, update.debounced or index event active, waiting or
\* delayed in the processor queue
InFlightJob(d) ==
    \/ \E p \in {"globalActive", "globalDelayed", "globalWaiting"} :
          \E i \in 1..Len(queues[p]) :
             /\ queues[p][i].documentId = d
             /\ queues[p][i].name \in GlobalNames
    \/ \E p \in {"processorActive", "processorWaiting", "processorDelayed"} :
          \E i \in 1..Len(queues[p]) :
             /\ queues[p][i].documentId = d
             /\ queues[p][i].name \in ProcessorNames

\* the failed records of d, in the order the queue answers them
FailedRecords(d) ==
    SelectSeq(queues["processorFailed"],
              LAMBDA j : j.documentId = d /\ j.name \in ProcessorNames)

\* C24: when the scans are done, a document with an active, waiting or
\* delayed indexing job in either queue is reported indexing, pending or
\* retrying, never failed, a failed record of it notwithstanding; a document
\* is reported failed exactly when it has a failed record and no such job,
\* and then with the failure reason of its first failed record.
C24_NotDowngradedToFailed ==
    statusPc = "done" =>
        \A d \in StatusDocIds :
            /\ InFlightJob(d) =>
                  indexingDocs[d].status \in {"indexing", "pending", "retrying"}
            /\ indexingDocs[d].status = "failed" <=>
                  (~InFlightJob(d) /\ FailedRecords(d) # <<>>)
            /\ indexingDocs[d].status = "failed" =>
                  indexingDocs[d].error = Head(FailedRecords(d)).failedReason

C24_Witness ==
    /\ statusPc = "done"
    /\ \E d \in StatusDocIds :
          /\ FailedRecords(d) # <<>>
          /\ Len(queues["processorActive"]) = 1
          /\ queues["processorActive"][1].documentId = d
          /\ queues["processorActive"][1].name = "documents.update"
          /\ indexingDocs[d] = [status |-> "indexing", error |-> NoReason]

(***************************************************************************)
(* The claims about the provider's stream and the prompt.                  *)
(***************************************************************************)
\* the payloads of the chunk events of a stream, in order
ChunkPayloads(s) ==
    LET chunks == SelectSeq(s, LAMBDA ev : ev.type = "chunk")
    IN [i \in 1..Len(chunks) |-> chunks[i].data]

\* the deltas that carry content, in arrival order
WithContent(ds) == SelectSeq(ds, LAMBDA c : c # "")

\* the concatenation of a sequence of strings
RECURSIVE Concat(_)
Concat(ss) == IF ss = <<>> THEN "" ELSE Head(ss) \o Concat(Tail(ss))

\* C31 (as stated): once the provider's stream is open, the payloads of the
\* chunk events are the provider's deltas, one chunk per delta in arrival
\* order, none dropped.
C31_EveryDeltaEmitted ==
    provider # "none" => ChunkPayloads(emitted) = deltas

\* C31: once the provider's stream is open, the payloads of the chunk events
\* are the provider's deltas that carry content, one chunk per such delta in
\* arrival order (a delta without content yields no chunk), and their
\* concatenation is the concatenation of all the deltas consumed.
C31_DeltasWithContentEmitted ==
    provider # "none" =>
        /\ ChunkPayloads(emitted) = WithContent(deltas)
        /\ Concat(ChunkPayloads(emitted)) = Concat(deltas)

C31_Witness ==
    /\ provider = "ended"
    /\ Len(deltas) = MaxDeltas
    /\ \E i, j \in 1..Len(deltas) : deltas[i] = "" /\ deltas[j] # ""
    /\ Len(ChunkPayloads(emitted)) < Len(deltas)

\* the texts of the results of the sources event, in the event's order
SourceTexts ==
    LET sources == emitted[1].data
    IN [i \in 1..Len(sources) |-> sources[i].pageContent]

\* C32: the messages handed to the chat provider are one system message
\* whose content ends with the context, then one message per history entry
\* in the history's order (a human message for role user, an AI message for
\* role assistant, each with the entry's content), then the question as a
\* human message, last; the context is the texts of the results of the
\* sources event, in that event's order, joined by the separator.
C32_MessageSequence ==
    chatModelBuilt =>
        /\ Len(messages) = Len(history) + 2
        /\ messages[1].type = "system"
        /\ messages[1].content
              = Instructions \o Join(SourceTexts, ContextSeparator)
        /\ \A i \in 1..Len(history) :
              /\ messages[i + 1].content = history[i].content
              /\ history[i].role = "user" => messages[i + 1].type = "human"
              /\ history[i].role = "assistant" => messages[i + 1].type = "ai"
        /\ messages[Len(messages)] = [type |-> "human", content |-> question]

C32_Witness ==
    /\ chatModelBuilt
    /\ Len(history) = 2
    /\ history[1].role = "assistant" /\ history[2].role = "user"
    /\ history[1].content # history[2].content
    /\ Len(retrievedDocs) = 2
    /\ retrievedDocs[1].pageContent = "p2"
    /\ retrievedDocs[2].pageContent = "p1"
    /\ Len(messages) = 4

(***************************************************************************)
(* The claims about the configuration.                                     *)
(***************************************************************************)
\* C33 (as stated): whatever the team saved, the chunkOverlap indexDocument
\* hands to the splitter is strictly less than the chunkSize it hands to it.
C33_OverlapBelowSize ==
    splitter # NoSplitter => splitter.chunkOverlap < splitter.chunkSize

\* the results the filters keep under threshold t
KeptUnder(t) == FilterCollection(FilterScore(retrieved, t), collectionIds)

\* C34 (as stated): the sources are the results under the team's threshold
\* when the team saved a number, and those under the default 0.4 when it
\* saved none; when the saved value is blank or not numeric, the results
\* the default threshold keeps are not all discarded.
C34_MalformedThresholdKeepsResults ==
    gpc # "search" =>
        /\ stored.RAG_SCORE_THRESHOLD >= 0 =>
              retrievedDocs = KeptUnder(stored.RAG_SCORE_THRESHOLD)
        /\ stored.RAG_SCORE_THRESHOLD = Unset =>
              retrievedDocs = KeptUnder(DefaultScoreThreshold)
        /\ (/\ stored.RAG_SCORE_THRESHOLD \in {Blank, NonNumeric}
            /\ KeptUnder(DefaultScoreThreshold) # <<>>) =>
              retrievedDocs # <<>>

(***************************************************************************)
(* The claims about the report of the job status aggregation.              *)
(***************************************************************************)
\* the partitions of the jobs in flight: all but the failed records
InFlightPartitions ==
    {"globalActive", "globalDelayed", "globalWaiting", "processorActive",
     "processorWaiting", "processorDelayed"}

\* the jobs in flight of document d, each with its partition
InFlightJobsOf(d) ==
    {<<p, i>> \in InFlightPartitions \X (1..MaxJobs) :
        /\ i <= Len(queues[p])
        /\ queues[p][i].documentId = d}

\* the only job in flight of d lies in one of the partitions ps and has one
\* of the names ns
OnlyJob(d, ps, ns) ==
    /\ Cardinality(InFlightJobsOf(d)) = 1
    /\ \E pi \in InFlightJobsOf(d) :
          /\ pi[1] \in ps
          /\ queues[pi[1]][pi[2]].name \in ns

\* data.indexing reports d with this status
Reported(d, status) ==
    \E i \in 1..Len(indexing) :
        indexing[i].documentId = d /\ indexing[i].status = status

\* C35: in the response, every entry of indexing is a document of the
\* requested team and no document has two entries; a document of that team
\* whose only job in flight is an update.debounced job of the lifecycle
\* queue is reported pending, a publish or index job there or an indexing
\* job active or waiting in the processor queue is reported indexing, and a
\* delayed indexing job of the processor queue is reported retrying.
C35_ReportClassifies ==
    statusPc = "done" =>
        /\ \A i \in 1..Len(indexing) :
              documents[indexing[i].documentId] = targetTeamId
        /\ \A i, j \in 1..Len(indexing) :
              indexing[i].documentId = indexing[j].documentId => i = j
        /\ \A d \in StatusDocIds :
              documents[d] = targetTeamId =>
                 /\ OnlyJob(d, {"globalActive", "globalDelayed", "globalWaiting"},
                            {"documents.update.debounced"})
                       => Reported(d, "pending")
                 /\ OnlyJob(d, {"globalActive", "globalDelayed", "globalWaiting"},
                            {"documents.publish", "documents.index"})
                       => Reported(d, "indexing")
                 /\ OnlyJob(d, {"processorActive", "processorWaiting"},
                            {"documents.publish", "documents.update",
                             "documents.update.debounced", "documents.index"})
                       => Reported(d, "indexing")
                 /\ OnlyJob(d, {"processorDelayed"},
                            {"documents.publish", "documents.update",
                             "documents.update.debounced", "documents.index"})
                       => Reported(d, "retrying")

\* a pending document of the requested team is reported; the other
\* document, of another team, has a job too and is left out
C35_Witness ==
    /\ statusPc = "done"
    /\ documents["d2"] # targetTeamId
    /\ OnlyJob("d1", {"globalDelayed"}, {"documents.update.debounced"})
    /\ OnlyJob("d2", {"processorActive"}, {"documents.index"})
    /\ Len(indexing) = 1
    /\ Reported("d1", "pending")

(***************************************************************************)
(* The claims about rag.delete and about the sources the client shows.     *)
(***************************************************************************)
\* C36 (as stated): the rows a rag.delete request removes carry the team of
\* the user who issued it.
C36_DeleteWithinTenant ==
    \A r \in lastDelete.removed : r.teamId = lastDelete.teamId

\* the positions of document d in the sources event, ascending
PositionsOf(d) ==
    SelectSeq([i \in 1..Len(rawSources) |-> i],
              LAMBDA i : rawSources[i] = d)

\* C37: the sources surfaced for an answer have at most one entry per
\* document and at most 5 entries, and each entry carries the 1-based
\* positions of all the chunks of its document in the sources event, in
\* ascending order.
C37_GroupedSources ==
    /\ Len(streamSources) <= 5
    /\ \A i, j \in 1..Len(streamSources) :
          streamSources[i].documentId = streamSources[j].documentId => i = j
    /\ \A i \in 1..Len(streamSources) :
          /\ streamSources[i].indices # <<>>
          /\ streamSources[i].indices = PositionsOf(streamSources[i].documentId)

\* seven sources of six documents: the first document has two chunks, the
\* sixth document is cut off
C37_Witness ==
    /\ Len(rawSources) = 7
    /\ rawSources[1] = rawSources[3]
    /\ \E i \in 1..7 : rawSources[i] = 6
    /\ Len(streamSources) = 5
    /\ streamSources[1].indices = <<1, 3>>

====
